---- MODULE Spec2Model ----
(***************************************************************************)
(* Sandboxed coding-agent execution orchestrator: the Gemini, Codex and    *)
(* OpenCode drivers (install -> verify -> authenticate -> configure ->     *)
(* execute -> interpret) as a state machine.                               *)
(*                                                                         *)
(* A text is a sequence of atoms.  Literal fragments of the source are one *)
(* atom each; credential values are spelled character by character so that *)
(* prefixes (startsWith, substring) and substring containment are real.    *)
(***************************************************************************)
EXTENDS Integers, Sequences, FiniteSets, TLC

VARIABLES inp, pc, loc, sbx, trace, result, raised

vars == <<inp, pc, loc, sbx, trace, result, raised>>

(***************************************************************************)
(* Text helpers (JavaScript string operations on atom sequences).          *)
(***************************************************************************)
Min(a, b) == IF a < b THEN a ELSE b

\* JS undefined; a template literal prints it as the text "undefined".
Undefined == <<"undefined">>

\* JS truthiness of an optional string.
Truthy(t) == t # Undefined /\ t # <<>>

\* String.prototype.includes
Contains(t, v) == Len(v) > 0 /\ \E i \in 1..(Len(t) - Len(v) + 1) : SubSeq(t, i, i + Len(v) - 1) = v

\* String.prototype.startsWith
StartsWith(t, p) == Len(t) >= Len(p) /\ SubSeq(t, 1, Len(p)) = p

\* String.prototype.substring(0, n)
Substring0(t, n) == SubSeq(t, 1, Min(n, Len(t)))

IsSpace(a) == a \in {" ", "\n"}

RECURSIVE TrimLeft(_)
TrimLeft(t) == IF t # <<>> /\ IsSpace(Head(t)) THEN TrimLeft(Tail(t)) ELSE t

RECURSIVE TrimRight(_)
TrimRight(t) == IF t # <<>> /\ IsSpace(t[Len(t)]) THEN TrimRight(SubSeq(t, 1, Len(t) - 1)) ELSE t

\* String.prototype.trim
Trim(t) == TrimRight(TrimLeft(t))

\* Array.prototype.join(' ') of a list of texts.
RECURSIVE JoinSp(_)
JoinSp(ts) == IF ts = <<>> THEN <<>> ELSE IF Len(ts) = 1 THEN ts[1] ELSE ts[1] \o <<" ">> \o JoinSp(Tail(ts))

(***************************************************************************)
(* Credentials of the invocation (process.env) and the Secret Redactor.    *)
(***************************************************************************)
CredNames == {"GEMINI_API_KEY", "GOOGLE_API_KEY", "OPENROUTER_API_KEY", "OPENAI_API_KEY", "ANTHROPIC_API_KEY"}

NoEnv == [GEMINI_API_KEY |-> <<>>, GOOGLE_API_KEY |-> <<>>, GOOGLE_GENAI_USE_VERTEXAI |-> <<>>, GOOGLE_CLOUD_PROJECT |-> <<>>, OPENROUTER_API_KEY |-> <<>>, OPENAI_API_KEY |-> <<>>, ANTHROPIC_API_KEY |-> <<>>]

\* The credential values configured for this invocation.
Secrets(env) == {env[k] : k \in CredNames} \ {<<>>}

\* Some configured credential value that the text starts with, or <<>>.
SecretAtHead(t, env) == IF \E s \in Secrets(env) : StartsWith(t, s) THEN CHOOSE s \in Secrets(env) : StartsWith(t, s) /\ \A o \in Secrets(env) : StartsWith(t, o) => Len(o) <= Len(s) ELSE <<>>

\* redactSensitiveInfo: every verbatim occurrence of a configured credential
\* value is replaced by a marker.
RECURSIVE RedactWith(_, _)
RedactWith(t, env) == IF t = <<>> THEN <<>> ELSE IF SecretAtHead(t, env) # <<>> THEN <<"[REDACTED]">> \o RedactWith(SubSeq(t, Len(SecretAtHead(t, env)) + 1, Len(t)), env) ELSE <<Head(t)>> \o RedactWith(Tail(t), env)

redactSensitiveInfo(t) == RedactWith(t, inp.env)

\* Whether a text shows some configured credential value.
Leaks(t) == \E s \in Secrets(inp.env) : Contains(t, s)

(***************************************************************************)
(* Events of one invocation: log appends and remote commands, in order.    *)
(***************************************************************************)
NoData == [fmt |-> "none"]

\* logger.command / info / error / success (awaited: a failure of the sink throws).
Log(kind, text) == [t |-> "log", kind |-> kind, text |-> text, tag |-> "", env |-> <<>>, data |-> NoData, safe |-> FALSE]

\* logger.x(...).catch(() => {}) inside a stream callback: fire and forget, a
\* failure of the append is swallowed and never reaches the pipeline.
Stream(kind, text) == [t |-> "log", kind |-> kind, text |-> text, tag |-> "", env |-> <<>>, data |-> NoData, safe |-> TRUE]

\* A command launched without awaiting it: the pipeline goes on while it runs.
CmdDetached(tag, text, env, data) == [t |-> "cmd", kind |-> "", text |-> text, tag |-> tag, env |-> env, data |-> data, safe |-> TRUE]

\* One awaited call of the command primitive; tag names the pipeline phase it serves.
Cmd(tag, text, env, data) == [t |-> "cmd", kind |-> "", text |-> text, tag |-> tag, env |-> env, data |-> data, safe |-> FALSE]

\* An exception raised by the driver's own code (a TypeError on a null field).
Fault(msg) == [t |-> "fault", kind |-> "", text |-> msg, tag |-> "", env |-> <<>>, data |-> NoData, safe |-> FALSE]

\* The result object of the command primitive.
Res(ok, code, out, err) == [success |-> ok, exitCode |-> code, output |-> out, error |-> err]

ResOk(out) == Res(TRUE, 0, out, Undefined)

ResFail(err) == Res(FALSE, 1, <<>>, err)

LogSinkError == <<"log sink unavailable">>

SandboxError == <<"sandbox unreachable">>

\* What a command that returned left in the history: its result object.
Ran(r) == [fmt |-> "ran", result |-> r]

\* A command that threw instead of returning a result.
Threw(e) == IF e.data.fmt = "ran" THEN [e EXCEPT !.data = [fmt |-> "threw"]] ELSE e

\* The message the catch block reads from what was thrown at event e.
ThrownMessage(e) == IF e.t = "log" THEN LogSinkError ELSE IF e.t = "cmd" THEN SandboxError ELSE e.text

\* runAndLogCommand: log the redacted command line, run it in the project
\* directory, log its trimmed output and, on failure, its error.
runAndLogCommand(tag, command, args, r) == <<Log("command", redactSensitiveInfo(JoinSp(<<command>> \o args))), Cmd(tag, JoinSp(<<command>> \o args), <<>>, Ran(r))>> \o (IF Truthy(r.output) /\ Trim(r.output) # <<>> THEN <<Log("info", redactSensitiveInfo(Trim(r.output)))>> ELSE <<>>) \o (IF ~r.success /\ Truthy(r.error) THEN <<Log("error", redactSensitiveInfo(r.error))>> ELSE <<>>)

(***************************************************************************)
(* AgentExecutionResult and the drivers' catch blocks.                     *)
(***************************************************************************)
NoResult == [success |-> FALSE, output |-> Undefined, agentResponse |-> Undefined, cliName |-> Undefined, changesDetected |-> FALSE, error |-> Undefined, sessionId |-> Undefined]

\* An early-return failure: {success: false, error, cliName, changesDetected: false}.
FailResult(cli, err) == [NoResult EXCEPT !.error = err, !.cliName = <<cli>>]

\* A catch block that returns the message without the driver's name.
CatchResultUnnamed(cli, msg) == [NoResult EXCEPT !.error = msg]

\* catch (error) { return {success: false, error: message, cliName, changesDetected: false} }
CatchResult(cli, msg) == FailResult(cli, msg)

\* Whether the catch block itself appends to the logger before returning.
CatchLogs(cli) == cli = "opencode"

\* An exception reaches the driver's catch block after `happened`.
Thrown(happened, sb, msg) ==
    /\ sbx' = sb
    /\ pc' = "done"
    /\ UNCHANGED <<inp, loc>>
    /\ \E sinkOk \in (IF CatchLogs(inp.driver) THEN BOOLEAN ELSE {TRUE}) :
          IF sinkOk
          THEN /\ trace' = trace \o happened \o (IF CatchLogs(inp.driver) THEN <<Log("error", msg)>> ELSE <<>>)
               /\ result' = CatchResult(inp.driver, msg)
               /\ raised' = FALSE
          ELSE /\ trace' = trace \o happened
               /\ result' = NoResult
               /\ raised' = TRUE

HasFault(ev) == \E i \in 1..Len(ev) : ev[i].t = "fault"

\* One pipeline step: the events ev happen in order and the step continues at
\* pc2 (or returns res2 when pc2 = "done"); or the k-th event throws (a log
\* append fails, the command primitive throws, the code faults) and control
\* passes to the catch block.  cmdIdx is the place in ev of the command whose
\* effect on the environment is sb2 (0: none).
Advance(ev, cmdIdx, sb2, loc2, pc2, res2) ==
    \/ /\ ~HasFault(ev)
       /\ trace' = trace \o ev
       /\ sbx' = sb2
       /\ loc' = loc2
       /\ pc' = pc2
       /\ result' = res2
       /\ raised' = FALSE
       /\ UNCHANGED inp
    \/ \E k \in 1..Len(ev) :
          /\ ~ev[k].safe
          /\ ~HasFault(SubSeq(ev, 1, k - 1))
          /\ Thrown(SubSeq(ev, 1, k - 1) \o (IF ev[k].t = "cmd" THEN <<Threw(ev[k])>> ELSE <<>>), IF cmdIdx > 0 /\ cmdIdx < k THEN sb2 ELSE sbx, ThrownMessage(ev[k]))

(***************************************************************************)
(* Connector records and their translation (Gemini settings.json).         *)
(***************************************************************************)
UpperCase == <<"A", "B", "C", "D", "E", "F", "G", "H", "I", "J", "K", "L", "M", "N", "O", "P", "Q", "R", "S", "T", "U", "V", "W", "X", "Y", "Z">>

LowerCase == <<"a", "b", "c", "d", "e", "f", "g", "h", "i", "j", "k", "l", "m", "n", "o", "p", "q", "r", "s", "t", "u", "v", "w", "x", "y", "z">>

Digits == {"0", "1", "2", "3", "4", "5", "6", "7", "8", "9"}

\* The lower-case form of one character: a letter of A-Z maps to its small
\* letter, U+0130 (capital I with dot above) to the two characters i and
\* U+0307, any other character of the model to itself.
lowerCaseOf(c) == IF \E i \in 1..Len(UpperCase) : UpperCase[i] = c THEN <<LowerCase[CHOOSE i \in 1..Len(UpperCase) : UpperCase[i] = c]>> ELSE IF c = "U+0130" THEN <<"i", "U+0307">> ELSE <<c>>

\* String.prototype.toLowerCase
RECURSIVE toLowerCase(_)
toLowerCase(t) == IF t = <<>> THEN <<>> ELSE lowerCaseOf(Head(t)) \o toLowerCase(Tail(t))

IsSlugChar(c) == c \in Digits \/ \E i \in 1..Len(LowerCase) : LowerCase[i] = c

\* A slug derived without lower-casing the name.
SlugKeepsCase(name) == [i \in 1..Len(name) |-> IF IsSlugChar(name[i]) THEN name[i] ELSE "-"]

\* server.name.toLowerCase().replace(/[^a-z0-9]/g, '-')
Slug(name) == LET lower == toLowerCase(name) IN [i \in 1..Len(lower) |-> IF IsSlugChar(lower[i]) THEN lower[i] ELSE "-"]

\* command.trim().split(/\s+/): the whitespace-separated tokens, in order.
RECURSIVE SplitWs(_)
SplitWs(t) == IF t = <<>> THEN <<>> ELSE IF IsSpace(Head(t)) THEN SplitWs(Tail(t)) ELSE <<Head(t)>> \o SplitWs(Tail(t))

commandParts(server) == IF Trim(server.command) = <<>> THEN <<"">> ELSE SplitWs(Trim(server.command))

\* Place of the quote closing the JSON string that opens at t[1], or 0.
StrEnd(t) == IF \E j \in 2..Len(t) : t[j] = "\"" THEN CHOOSE j \in 2..Len(t) : t[j] = "\"" /\ \A k \in 2..(j - 1) : t[k] # "\"" ELSE 0

\* Members of a JSON object of string values, t starting at the first key.
RECURSIVE ParseMembers(_, _)
ParseMembers(t, acc) ==
    IF Len(t) < 2 \/ t[1] # "\"" \/ StrEnd(t) = 0 THEN [ok |-> FALSE, map |-> <<>>]
    ELSE LET k == StrEnd(t)
             rest == SubSeq(t, k + 1, Len(t))
         IN IF Len(rest) < 3 \/ rest[1] # ":" \/ rest[2] # "\"" \/ StrEnd(Tail(rest)) = 0 THEN [ok |-> FALSE, map |-> <<>>]
            ELSE LET v == StrEnd(Tail(rest))
                     after == SubSeq(rest, v + 2, Len(rest))
                     got == Append(acc, <<SubSeq(t, 2, k - 1), SubSeq(rest, 3, v)>>)
                 IN IF after = <<"}">> THEN [ok |-> TRUE, map |-> got]
                    ELSE IF after # <<>> /\ after[1] = "," THEN ParseMembers(Tail(after), got)
                    ELSE [ok |-> FALSE, map |-> <<>>]

\* JSON.parse(server.env) for a serialized key/value map; ok = FALSE when it throws.
JSONparse(t) == IF t = <<"{", "}">> THEN [ok |-> TRUE, map |-> <<>>] ELSE IF t # <<>> /\ t[1] = "{" THEN ParseMembers(Tail(t), <<>>) ELSE [ok |-> FALSE, map |-> <<>>]

TypeError == <<"Cannot read properties of null">>

\* An assignment that keeps the entry a key already has.
PutFirstWins(obj, key, entry) == IF \E i \in 1..Len(obj) : obj[i].key = key THEN obj ELSE Append(obj, [key |-> key, entry |-> entry])

\* obj[key] = entry on an insertion-ordered object.
Put(obj, key, entry) == IF \E i \in 1..Len(obj) : obj[i].key = key THEN [i \in 1..Len(obj) |-> IF obj[i].key = key THEN [key |-> key, entry |-> entry] ELSE obj[i]] ELSE Append(obj, [key |-> key, entry |-> entry])

\* headers of a remote entry: Authorization from the secret, X-Client-ID from the id.
RemoteHeaders(server) == (IF Truthy(server.oauthClientSecret) THEN <<<<"Authorization", <<"Bearer ">> \o server.oauthClientSecret>>>> ELSE <<>>) \o (IF Truthy(server.oauthClientId) THEN <<<<"X-Client-ID", server.oauthClientId>>>> ELSE <<>>)

\* The settings.json entry of one connector (Gemini).
GeminiEntry(server) ==
    IF server.type = "local"
    THEN [kind |-> "local", command |-> commandParts(server)[1], args |-> Tail(commandParts(server)), hasEnv |-> Truthy(server.env) /\ JSONparse(server.env).ok, env |-> IF Truthy(server.env) THEN JSONparse(server.env).map ELSE <<>>]
    ELSE [kind |-> "remote", httpUrl |-> server.baseUrl, headers |-> RemoteHeaders(server)]

\* settingsConfig.mcpServers after the translation loop.
RECURSIVE GeminiSettings(_, _)
GeminiSettings(servers, acc) == IF servers = <<>> THEN acc ELSE GeminiSettings(Tail(servers), Put(acc, Slug(Head(servers).name), GeminiEntry(Head(servers))))

\* A translation loop that names what it added: the log line of a remote
\* connector carries its bearer credential.
ServerEventsVerbose(server) ==
    IF server.name = Undefined THEN <<Fault(TypeError)>>
    ELSE IF server.type = "local"
    THEN IF server.command = Undefined THEN <<Fault(TypeError)>>
         ELSE (IF Truthy(server.env) /\ ~JSONparse(server.env).ok THEN <<Log("info", <<"Warning: Failed to parse env for MCP server">>)>> ELSE <<>>) \o <<Log("info", <<"Added local MCP server">>)>>
    ELSE <<Log("info", <<"Added remote MCP server with Authorization: Bearer ">> \o server.oauthClientSecret)>>

\* What the translation loop of the Gemini and OpenCode drivers logs or throws
\* for one connector.
ServerEvents(server) ==
    IF server.name = Undefined THEN <<Fault(TypeError)>>
    ELSE IF server.type = "local"
    THEN IF server.command = Undefined THEN <<Fault(TypeError)>>
         ELSE (IF Truthy(server.env) /\ ~JSONparse(server.env).ok THEN <<Log("info", <<"Warning: Failed to parse env for MCP server">>)>> ELSE <<>>) \o <<Log("info", <<"Added local MCP server">>)>>
    ELSE <<Log("info", <<"Added remote MCP server">>)>>

RECURSIVE TranslationEvents(_)
TranslationEvents(servers) == IF servers = <<>> THEN <<>> ELSE ServerEvents(Head(servers)) \o TranslationEvents(Tail(servers))

(***************************************************************************)
(* Inputs of one invocation.                                               *)
(***************************************************************************)
\* Longest connector list handed to a driver.
MaxConnectors == 1

\* Credential values of the scenarios, spelled character by character.
Keys == [gemini |-> <<"A", "I", "z", "a", "S", "y">>, geminiMalformed |-> <<"g", "k", "e", "y", "9">>, google |-> <<"G", "c", "p", "K", "7">>, openRouter |-> <<"s", "k", "-", "o", "r", "-", "v", "1">>, openAIStyle |-> <<"s", "k", "-", "p", "x">>, malformed |-> <<"o", "r", "k", "e", "y">>, openAI |-> <<"s", "k", "-", "o", "a", "i">>, anthropic |-> <<"s", "k", "-", "a", "n", "t">>]

NoConnector == [name |-> Undefined, type |-> "local", command |-> Undefined, env |-> Undefined, baseUrl |-> Undefined, oauthClientId |-> Undefined, oauthClientSecret |-> Undefined]

LocalConnector == [NoConnector EXCEPT !.name = <<"M", "y", " ", "T", "1">>, !.command = <<" ", "foo", " ", " ", "--bar">>, !.env = <<"{", "\"", "X", "\"", ":", "\"", "1", "\"", "}">>]

RemoteConnector == [NoConnector EXCEPT !.name = <<"m", "y", "-", "t", "1">>, !.type = "remote", !.baseUrl = <<"https://h">>, !.oauthClientId = <<"cid">>, !.oauthClientSecret = <<"s", "3", "c">>]

\* Connector records: a local one, a remote one, and a local one whose command
\* is null (a malformed record).
Connectors == {LocalConnector, RemoteConnector, [NoConnector EXCEPT !.name = <<"b", "a", "d">>]}

RECURSIVE SeqsUpTo(_, _)
SeqsUpTo(S, n) == IF n = 0 THEN {<<>>} ELSE SeqsUpTo(S, n - 1) \cup {Append(q, x) : q \in {r \in SeqsUpTo(S, n - 1) : Len(r) = n - 1}, x \in S}

\* Two connectors of different names and the same slug, in both orders.
CollidingLists == {<<LocalConnector, RemoteConnector>>, <<RemoteConnector, LocalConnector>>}

ConnectorLists == SeqsUpTo(Connectors, MaxConnectors) \cup CollidingLists

Instruction == <<"fix", " ", "the", " ", "bug">>

Models == {Undefined, <<"model-x">>}

\* process.env as each driver reads it.
EnvsOf(d) ==
    IF d = "gemini" THEN {NoEnv, [NoEnv EXCEPT !.GEMINI_API_KEY = Keys.gemini], [NoEnv EXCEPT !.GEMINI_API_KEY = Keys.geminiMalformed], [NoEnv EXCEPT !.GOOGLE_API_KEY = Keys.google, !.GOOGLE_GENAI_USE_VERTEXAI = <<"true">>], [NoEnv EXCEPT !.GOOGLE_API_KEY = Keys.google], [NoEnv EXCEPT !.GOOGLE_CLOUD_PROJECT = <<"my-project">>], [NoEnv EXCEPT !.GEMINI_API_KEY = Keys.gemini, !.GOOGLE_API_KEY = Keys.google, !.GOOGLE_GENAI_USE_VERTEXAI = <<"true">>, !.GOOGLE_CLOUD_PROJECT = <<"my-project">>]}
    ELSE IF d = "codex" THEN {NoEnv, [NoEnv EXCEPT !.OPENROUTER_API_KEY = Keys.openRouter], [NoEnv EXCEPT !.OPENROUTER_API_KEY = Keys.openAIStyle, !.OPENAI_API_KEY = Keys.openAI], [NoEnv EXCEPT !.OPENROUTER_API_KEY = Keys.malformed]}
    ELSE {NoEnv, [NoEnv EXCEPT !.OPENROUTER_API_KEY = Keys.openRouter], [NoEnv EXCEPT !.OPENAI_API_KEY = Keys.openAI], [NoEnv EXCEPT !.ANTHROPIC_API_KEY = Keys.anthropic], [NoEnv EXCEPT !.OPENROUTER_API_KEY = Keys.openRouter, !.OPENAI_API_KEY = Keys.openAI, !.ANTHROPIC_API_KEY = Keys.anthropic]}

\* (isResumed, sessionId) pairs; the Gemini driver takes neither.
ResumesOf(d) == IF d = "gemini" THEN {<<FALSE, Undefined>>} ELSE {<<FALSE, Undefined>>, <<FALSE, <<"a", "b", "c">>>>, <<TRUE, Undefined>>, <<TRUE, <<"a", "b", "c">>>>}

Drivers == {"gemini", "codex", "opencode"}

Invocations == UNION {{[driver |-> d, env |-> e, instruction |-> Instruction, selectedModel |-> m, mcpServers |-> cs, isResumed |-> r[1], sessionId |-> r[2]] : e \in EnvsOf(d), m \in Models, cs \in ConnectorLists, r \in ResumesOf(d)} : d \in Drivers}

(***************************************************************************)
(* The environment: the agent binary, the agent's configuration artifact,  *)
(* the project tree, and what one run of the agent can do.                 *)
(***************************************************************************)
ToolRegistryError == <<"Tool", " write_file ", "not found in registry">>

AnySecret(env) == IF Secrets(env) = {} THEN <<"none">> ELSE CHOOSE s \in Secrets(env) : TRUE

\* Outcomes of one agent run: exit code, stdout, stderr, and whether it
\* modified the project tree.
AgentRuns(env) ==
    {[exitCode |-> 0, stdout |-> <<"Done.", "\n">>, stderr |-> <<>>, changes |-> FALSE]}
    \cup {[exitCode |-> 0, stdout |-> <<>>, stderr |-> <<>>, changes |-> TRUE]}
    \cup {[exitCode |-> 0, stdout |-> <<"Session", ":", " ", "a", "1", "f", "\n", "key ">> \o AnySecret(env), stderr |-> <<"warn: login cached">>, changes |-> TRUE]}
    \cup {[exitCode |-> 1, stdout |-> <<>>, stderr |-> ToolRegistryError, changes |-> c] : c \in BOOLEAN}
    \cup {[exitCode |-> 1, stdout |-> <<"partial", "\n", "session", "_", "id", ":", " ", "b", "2">>, stderr |-> <<"fatal ">> \o AnySecret(env), changes |-> TRUE]}
    \cup {[exitCode |-> 1, stdout |-> <<>>, stderr |-> <<"Please ", "login">>, changes |-> FALSE]}
    \cup {[exitCode |-> 2, stdout |-> <<>>, stderr |-> <<>>, changes |-> FALSE]}

\* The result of runInProject for one agent run.
RunResult(run) == Res(run.exitCode = 0, run.exitCode, run.stdout, run.stderr)

NoRun == [exitCode |-> 0, stdout |-> <<>>, stderr |-> <<>>, changes |-> FALSE]

InitLoc == [cliCheck |-> FALSE, authMethod |-> "none", authEnv |-> <<>>, attempts |-> 0, run |-> NoRun, hasChanges |-> FALSE, globalBinPath |-> <<>>, opencodeCmdToUse |-> <<"opencode">>]

StartOf(d) == IF d = "gemini" THEN "g_check" ELSE IF d = "codex" THEN "c_check" ELSE "o_creds"

Init ==
    /\ inp \in Invocations
    /\ pc = StartOf(inp.driver)
    /\ loc = InitLoc
    /\ sbx \in {[bin |-> b, config |-> NoData, auth |-> {}, dirty |-> FALSE] : b \in {"absent", "present"}}
    /\ trace = <<>>
    /\ result = NoResult
    /\ raised = FALSE

(***************************************************************************)
(* executeGeminiInSandbox                                                  *)
(***************************************************************************)
\* Result of `which <binary>` in the environment.
WhichResult(binary) == IF sbx.bin = "present" THEN ResOk(<<"/usr/local/bin/", binary, "\n">>) ELSE ResFail(<<>>)

\* How the binary can sit in the environment after an install that reported
\* success: on PATH, only under the npm global bin directory, or not runnable.
InstalledStates == {"present", "offpath", "broken"}

\* Results an install command can have.
InstallResults == {ResOk(<<"added 1 package", "\n">>), ResFail(<<"npm ERR! network">>)}

\* Where the pipeline goes once the binary is confirmed (Gemini).
GeminiAfterCheck == IF inp.mcpServers # <<>> THEN "g_configure" ELSE "g_auth"

\* which gemini (gemini.ts 57-60)
GeminiCheck ==
    /\ pc = "g_check"
    /\ LET r == WhichResult("gemini")
       IN Advance(runAndLogCommand("check", <<"which">>, <<<<"gemini">>>>, r), 2, sbx, [loc EXCEPT !.cliCheck = r.success], IF r.success THEN GeminiAfterCheck ELSE "g_install", NoResult)

\* npm install -g @google/gemini-cli (gemini.ts 61-76)
GeminiInstall ==
    /\ pc = "g_install"
    /\ \E r \in InstallResults, b \in InstalledStates :
          Advance(<<Log("info", <<"Gemini CLI not found, installing...">>)>> \o runAndLogCommand("install", <<"npm">>, <<<<"install">>, <<"-g">>, <<"@google/gemini-cli">>>>, r) \o (IF r.success THEN <<Log("info", <<"Gemini CLI installed successfully">>)>> ELSE <<>>),
                  3, IF r.success THEN [sbx EXCEPT !.bin = b] ELSE sbx, loc,
                  IF r.success THEN "g_verify" ELSE "done",
                  IF r.success THEN NoResult ELSE FailResult("gemini", <<"Failed to install Gemini CLI: ">> \o r.error))

\* which gemini again after the install (gemini.ts 78-87)
GeminiVerify ==
    /\ pc = "g_verify"
    /\ LET r == WhichResult("gemini")
       IN Advance(runAndLogCommand("verify", <<"which">>, <<<<"gemini">>>>, r), 2, sbx, loc,
                  IF r.success THEN GeminiAfterCheck ELSE "done",
                  IF r.success THEN NoResult ELSE FailResult("gemini", <<"Gemini CLI installation completed but CLI still not found">>))

GeminiSettingsFile == [fmt |-> "gemini-settings", mcpServers |-> GeminiSettings(inp.mcpServers, <<>>)]

\* translate the connectors and write ~/.gemini/settings.json (gemini.ts 90-171)
GeminiConfigure ==
    /\ pc = "g_configure"
    /\ \E ok \in BOOLEAN :
          LET pre == <<Log("info", <<"Configuring MCP servers">>)>> \o TranslationEvents(inp.mcpServers) \o <<Log("info", <<"Creating Gemini MCP settings file...">>)>>
          IN Advance(pre \o <<Cmd("config", <<"mkdir -p ~/.gemini && cat > ~/.gemini/settings.json">>, <<>>, GeminiSettingsFile)>> \o <<Log("info", IF ok THEN <<"Gemini settings.json file created successfully">> ELSE <<"Warning: Failed to create Gemini settings.json file">>)>>,
                     Len(pre) + 1, IF ok THEN [sbx EXCEPT !.config = GeminiSettingsFile] ELSE sbx, loc,
                     IF ok THEN "g_cfgverify" ELSE "g_auth", NoResult)

\* test -f ~/.gemini/settings.json (gemini.ts 164-168)
GeminiConfigVerify ==
    /\ pc = "g_cfgverify"
    /\ \E ok \in BOOLEAN :
          Advance(<<Cmd("configcheck", <<"test -f ~/.gemini/settings.json">>, <<>>, NoData)>> \o (IF ok THEN <<Log("info", <<"Gemini MCP configuration verified">>)>> ELSE <<>>), 1, sbx, loc, "g_auth", NoResult)

\* A selection that prefers the Vertex AI pair to the Gemini API key.
GeminiAuthMethodVertexFirst(env) == IF Truthy(env.GOOGLE_API_KEY) /\ Truthy(env.GOOGLE_GENAI_USE_VERTEXAI) THEN "vertex_ai" ELSE IF Truthy(env.GEMINI_API_KEY) THEN "api_key" ELSE IF Truthy(env.GOOGLE_CLOUD_PROJECT) THEN "oauth_project" ELSE "oauth"

\* The authentication method selected from process.env (gemini.ts 174-221).
GeminiAuthMethod(env) == IF Truthy(env.GEMINI_API_KEY) THEN "api_key" ELSE IF Truthy(env.GOOGLE_API_KEY) /\ Truthy(env.GOOGLE_GENAI_USE_VERTEXAI) THEN "vertex_ai" ELSE IF Truthy(env.GOOGLE_CLOUD_PROJECT) THEN "oauth_project" ELSE "oauth"

\* authEnv: the credential variables handed to the agent process.
GeminiAuthEnv(env) == IF GeminiAuthMethod(env) = "api_key" THEN <<<<"GEMINI_API_KEY", env.GEMINI_API_KEY>>>> ELSE IF GeminiAuthMethod(env) = "vertex_ai" THEN <<<<"GOOGLE_API_KEY", env.GOOGLE_API_KEY>>, <<"GOOGLE_GENAI_USE_VERTEXAI", <<"true">>>>>> ELSE IF GeminiAuthMethod(env) = "oauth_project" THEN <<<<"GOOGLE_CLOUD_PROJECT", env.GOOGLE_CLOUD_PROJECT>>>> ELSE <<>>

\* Characters of the key shown by the "key detected" message.
GeminiKeyPrefixLen == 4

GeminiKeyScheme == <<"A", "I", "z", "a">>

\* The log line announcing the detected key (gemini.ts 185-187).
GeminiKeyDetected(key) == <<"Gemini API key detected (prefix: ">> \o Substring0(key, GeminiKeyPrefixLen) \o <<"..., length: ", ToString(Len(key)), ")">>

\* What the api_key branch logs before writing the config file (gemini.ts 181-192).
GeminiKeyLogs(key) == <<Log("info", GeminiKeyDetected(key))>> \o (IF ~StartsWith(key, GeminiKeyScheme) THEN <<Log("info", <<"WARNING: Gemini API key does not start with 'AIza' - may be invalid format">>)>> ELSE <<>>)

GeminiAuthFile(key) == [fmt |-> "gemini-auth", selectedAuthType |-> "API_KEY", apiKey |-> key]

\* authentication, API-key branch: announce the key, write it to
\* ~/.gemini/settings.json (gemini.ts 181-203)
GeminiAuthKey ==
    /\ pc = "g_auth"
    /\ GeminiAuthMethod(inp.env) = "api_key"
    /\ \E ok \in BOOLEAN :
          LET key == inp.env.GEMINI_API_KEY
              pre == GeminiKeyLogs(key)
          IN Advance(pre \o <<Cmd("auth", <<"mkdir -p ~/.gemini && echo '{\"selectedAuthType\":\"API_KEY\",\"apiKey\":\"">> \o key \o <<"\"}' > ~/.gemini/settings.json">>, <<>>, GeminiAuthFile(key))>> \o <<Log("info", IF ok THEN <<"Gemini config file created with API key">> ELSE <<"Warning: Failed to create Gemini config file">>)>>,
                     Len(pre) + 1, IF ok THEN [sbx EXCEPT !.config = GeminiAuthFile(key)] ELSE sbx,
                     [loc EXCEPT !.authMethod = "api_key", !.authEnv = GeminiAuthEnv(inp.env)], "g_exec", NoResult)

\* The one message of the branches that write nothing (gemini.ts 204-221).
GeminiAuthMessage(method) == IF method = "vertex_ai" THEN <<"Using Vertex AI auth">> ELSE IF method = "oauth_project" THEN <<"Using Google Cloud Project auth (requires OAuth login)">> ELSE <<"WARNING: No GEMINI_API_KEY found - CLI will attempt OAuth which cannot work in sandbox">>

\* authentication, the other branches (gemini.ts 204-221)
GeminiAuthOther ==
    /\ pc = "g_auth"
    /\ GeminiAuthMethod(inp.env) # "api_key"
    /\ Advance(<<Log("info", GeminiAuthMessage(GeminiAuthMethod(inp.env)))>>, 0, sbx, [loc EXCEPT !.authMethod = GeminiAuthMethod(inp.env), !.authEnv = GeminiAuthEnv(inp.env)], "g_exec", NoResult)

\* instruction.replace(/'/g, "'\\''")
escapedInstruction(t) == [i \in 1..Len(t) |-> IF t[i] = "'" THEN "'\\''" ELSE t[i]]

ModelArgs == IF Truthy(inp.selectedModel) THEN <<<<"-m">>, inp.selectedModel>> ELSE <<>>

\* A ladder whose second rung keeps the flags of the first.
GeminiArgsCumulative(attempt) == ModelArgs \o (IF attempt = 1 THEN <<<<"--yolo">>, <<"-o">>, <<"stream-json">>>> ELSE IF attempt = 2 THEN <<<<"--yolo">>, <<"-o">>, <<"stream-json">>, <<"--approval-mode">>, <<"auto_edit">>>> ELSE <<>>)

\* The flag sets of the three rungs of the ladder (gemini.ts 224-236, 304-308, 325).
GeminiArgs(attempt) == ModelArgs \o (IF attempt = 1 THEN <<<<"--yolo">>, <<"-o">>, <<"stream-json">>>> ELSE IF attempt = 2 THEN <<<<"--approval-mode">>, <<"auto_edit">>>> ELSE <<>>)

\* cd ${PROJECT_DIR} && gemini <args> -p '<instruction>'
GeminiCommand(attempt) == <<"cd ", "PROJECT_DIR", " && gemini ">> \o JoinSp(GeminiArgs(attempt)) \o <<" -p '">> \o escapedInstruction(inp.instruction) \o <<"'">>

\* Characters of the instruction shown in the logged command line.
GeminiPreviewLen == 100

\* The command line as logged before the first attempt (gemini.ts 242-243).
GeminiLoggedCommand == <<"gemini ">> \o JoinSp(GeminiArgs(1)) \o <<" -p \"">> \o Substring0(inp.instruction, GeminiPreviewLen) \o <<"...\"">>

\* env of the execution command: authEnv plus the fixed variables (gemini.ts 247-257).
GeminiEnv(authEnv) == authEnv \o <<<<"HOME", <<"/home/vercel-sandbox">>>>, <<"PATH", <<"/usr/local/bin:/usr/bin:/bin">>>>, <<"CI", <<"true">>>>, <<"NO_UPDATE_NOTIFIER", <<"true">>>>, <<"npm_config_yes", <<"true">>>>>>

\* captureStdout / captureStderr: each chunk is logged as it arrives, the
\* promise of the append is not awaited (gemini.ts 259-280).
GeminiStream(run) == (IF run.stdout # <<>> THEN <<Stream("info", Trim(run.stdout))>> ELSE <<>>) \o (IF run.stderr # <<>> THEN <<Stream("error", <<"[stderr] ">> \o Trim(run.stderr))>> ELSE <<>>)

\* A ladder that retries after any failed attempt.
RecoverableAnyFailure(run) == run.exitCode # 0

\* The recoverable signature: a failed attempt whose stderr names a tool
\* missing from the registry (gemini.ts 302, 323).
Recoverable(run) == run.exitCode # 0 /\ Contains(run.stderr, <<"Tool">>) /\ Contains(run.stderr, <<"not found in registry">>)

\* One attempt of the ladder: the logs before it, the command, the streamed chunks.
GeminiAttempt(pre, attempt, pcRetry) ==
    \E run \in AgentRuns(inp.env) :
        Advance(pre \o <<Cmd("exec", GeminiCommand(attempt), GeminiEnv(loc.authEnv), Ran(RunResult(run)))>> \o GeminiStream(run),
                Len(pre) + 1, [sbx EXCEPT !.dirty = sbx.dirty \/ run.changes],
                [loc EXCEPT !.attempts = attempt, !.run = run],
                IF Recoverable(run) /\ pcRetry # "" THEN pcRetry ELSE "g_final", NoResult)

\* first attempt: --yolo -o stream-json (gemini.ts 223-298)
GeminiExecute ==
    /\ pc = "g_exec"
    /\ GeminiAttempt((IF Truthy(inp.selectedModel) THEN <<Log("info", <<"Using selected model">>)>> ELSE <<>>) \o <<Log("info", <<"Executing Gemini CLI in headless mode">>), Log("command", GeminiLoggedCommand), Log("info", <<"Executing Gemini CLI in project directory with streaming...">>)>>, 1, "g_fallback1")

\* second attempt: --approval-mode auto_edit (gemini.ts 300-320)
GeminiFallbackAutoEdit ==
    /\ pc = "g_fallback1"
    /\ GeminiAttempt(<<Log("info", <<"Retrying with auto_edit approval mode...">>)>>, 2, "g_fallback2")

\* third attempt: minimal flags (gemini.ts 322-335)
GeminiFallbackMinimal ==
    /\ pc = "g_fallback2"
    /\ GeminiAttempt(<<Log("info", <<"Retrying with minimal flags...">>)>>, 3, "")

\* Results a `git status --porcelain` probe can have in the project tree.
StatusResults == {ResOk(IF sbx.dirty THEN <<" M src/a.ts", "\n">> ELSE <<>>), ResFail(<<"fatal: not a git repository">>)}

\* gitStatusCheck.success && gitStatusCheck.output?.trim()
hasChanges(g) == g.success /\ Truthy(g.output) /\ Trim(g.output) # <<>>

ChangesNote(changed) == IF changed THEN " (Changes detected)" ELSE " (No changes made)"

\* The success result (gemini.ts 382-389).
GeminiSuccess(run, changed) == [success |-> TRUE, output |-> <<"Gemini CLI executed successfully", ChangesNote(changed)>>, agentResponse |-> IF run.stdout # <<>> THEN run.stdout ELSE <<"No detailed response available">>, cliName |-> <<"gemini">>, changesDetected |-> changed, error |-> Undefined, sessionId |-> Undefined]

\* The error text of a failed final attempt (gemini.ts 392-415).
GeminiError(run) ==
    IF Contains(run.stderr, <<"authentication">>) \/ Contains(run.stderr, <<"login">>)
    THEN <<"Gemini CLI authentication failed. Please set GEMINI_API_KEY, GOOGLE_API_KEY (with GOOGLE_GENAI_USE_VERTEXAI=true), or GOOGLE_CLOUD_PROJECT environment variable. Error: ">> \o run.stderr
    ELSE IF Contains(run.stderr, <<"Tool">>) /\ Contains(run.stderr, <<"not found in registry">>)
    THEN <<"Gemini CLI tool registry error - this may be due to sandbox environment limitations. The Gemini CLI may have restricted file operation capabilities in this environment. Consider using a different agent for file modifications. Error: ">> \o run.stderr
    ELSE <<"Gemini CLI failed (exit code ", ToString(run.exitCode), "): ">> \o (IF run.stderr # <<>> THEN run.stderr ELSE <<"No error message">>)

\* The failure result (gemini.ts 390-420).
GeminiFailure(run, changed) == [success |-> FALSE, output |-> Undefined, agentResponse |-> run.stdout, cliName |-> <<"gemini">>, changesDetected |-> changed, error |-> GeminiError(run), sessionId |-> Undefined]

\* The logs of the final outputs of the last attempt (gemini.ts 350-367).
GeminiFinalLogs(run) == (IF Trim(run.stdout) # <<>> THEN <<Log("info", redactSensitiveInfo(Trim(run.stdout)))>> ELSE <<>>) \o (IF run.exitCode # 0 /\ Trim(run.stderr) # <<>> THEN <<Log("error", redactSensitiveInfo(Trim(run.stderr)))>> ELSE <<>>) \o <<Log("info", <<"Gemini CLI execution completed">>)>>

\* log the final outputs, probe the project tree, return unless the run
\* succeeded without changes (gemini.ts 350-420)
GeminiInterpret ==
    /\ pc = "g_final"
    /\ \E g \in StatusResults :
          LET pre == GeminiFinalLogs(loc.run)
              ok == loc.run.exitCode = 0
          IN Advance(pre \o runAndLogCommand("status", <<"git">>, <<<<"status">>, <<"--porcelain">>>>, g), Len(pre) + 2, sbx,
                     [loc EXCEPT !.hasChanges = hasChanges(g)],
                     IF ok /\ ~hasChanges(g) THEN "g_find" ELSE "done",
                     IF ok /\ ~hasChanges(g) THEN NoResult ELSE IF ok THEN GeminiSuccess(loc.run, hasChanges(g)) ELSE GeminiFailure(loc.run, hasChanges(g)))

\* find . -name README* (gemini.ts 375-378)
GeminiFind ==
    /\ pc = "g_find"
    /\ Advance(<<Log("info", <<"No changes detected. Checking if files exist...">>)>> \o runAndLogCommand("diag", <<"find">>, <<<<".">>, <<"-name">>, <<"README*">>, <<"-o">>, <<"-name">>, <<"readme*">>>>, ResOk(<<"./README.md", "\n">>)), 3, sbx, loc, "g_ls", NoResult)

\* ls -la, then the success result (gemini.ts 379-389)
GeminiList ==
    /\ pc = "g_ls"
    /\ Advance(runAndLogCommand("diag", <<"ls">>, <<<<"-la">>>>, ResOk(<<"total 8", "\n">>)), 2, sbx, loc, "done", GeminiSuccess(loc.run, loc.hasChanges))

Gemini == GeminiCheck \/ GeminiInstall \/ GeminiVerify \/ GeminiConfigure \/ GeminiConfigVerify \/ GeminiAuthKey \/ GeminiAuthOther \/ GeminiExecute \/ GeminiFallbackAutoEdit \/ GeminiFallbackMinimal \/ GeminiInterpret \/ GeminiFind \/ GeminiList

(***************************************************************************)
(* Session identifier extraction (Codex and OpenCode).                     *)
(***************************************************************************)
HexChars == Digits \cup {"a", "b", "c", "d", "e", "f", "-"}

\* Length of the longest run of atoms of S that starts at t[i].
RECURSIVE RunLen(_, _, _)
RunLen(t, i, S) == IF i <= Len(t) /\ t[i] \in S THEN 1 + RunLen(t, i + 1, S) ELSE 0

\* Where the separators start if (?:session[_\s-]?id|Session) matches at t[i], else 0.
SessionWordEnd(t, i) ==
    IF i > Len(t) \/ t[i] \notin {"Session", "session", "SESSION"} THEN 0
    ELSE IF i + 1 <= Len(t) /\ t[i + 1] \in {"id", "ID", "Id"} THEN i + 2
    ELSE IF i + 2 <= Len(t) /\ t[i + 1] \in {"_", " ", "\n", "-"} /\ t[i + 2] \in {"id", "ID", "Id"} THEN i + 3
    ELSE i + 1

\* Whether /(?:session[_\s-]?id|Session)[:\s]+([a-f0-9-]+)/i matches at t[i].
SessionAt(t, i) == LET j == SessionWordEnd(t, i) IN j > 0 /\ RunLen(t, j, {":", " ", "\n"}) > 0 /\ RunLen(t, j + RunLen(t, j, {":", " ", "\n"}), HexChars) > 0

\* extractedSessionId: group 1 of the first match in the output, else undefined.
extractSessionId(t) ==
    IF t = Undefined \/ ~\E i \in 1..Len(t) : SessionAt(t, i) THEN Undefined
    ELSE LET i == CHOOSE k \in 1..Len(t) : SessionAt(t, k) /\ \A m \in 1..(k - 1) : ~SessionAt(t, m)
             j == SessionWordEnd(t, i)
             h == j + RunLen(t, j, {":", " ", "\n"})
         IN SubSeq(t, h, h + RunLen(t, h, HexChars) - 1)

(***************************************************************************)
(* executeCodexInSandbox                                                   *)
(***************************************************************************)
\* A probe whose answer is ignored: the install branch is always taken.
NeverInstalled(r, binary) == FALSE

\* existingCLICheck.success && existingCLICheck.output?.includes(binary)
AlreadyInstalled(r, binary) == r.success /\ Truthy(r.output) /\ Contains(r.output, <<binary>>)

\* which codex, not logged (part_004 40-48)
CodexCheck ==
    /\ pc = "c_check"
    /\ LET r == WhichResult("codex")
       IN Advance(<<Cmd("check", <<"which", " ", "codex">>, <<>>, Ran(r))>> \o (IF AlreadyInstalled(r, "codex") THEN <<Log("info", <<"Codex CLI already installed, skipping installation">>)>> ELSE <<>>), 1, sbx, loc, IF AlreadyInstalled(r, "codex") THEN "c_verify" ELSE "c_install", NoResult)

\* npm install -g @openai/codex (part_004 49-64)
CodexInstall ==
    /\ pc = "c_install"
    /\ \E r \in InstallResults, b \in InstalledStates :
          Advance(<<Log("info", <<"Installing Codex CLI...">>)>> \o runAndLogCommand("install", <<"npm">>, <<<<"install">>, <<"-g">>, <<"@openai/codex">>>>, r) \o (IF r.success THEN <<Log("info", <<"Codex CLI installed successfully">>)>> ELSE <<>>),
                  3, IF r.success THEN [sbx EXCEPT !.bin = b] ELSE sbx, loc,
                  IF r.success THEN "c_verify" ELSE "done",
                  IF r.success THEN NoResult ELSE FailResult("codex", <<"Failed to install Codex CLI: ">> \o r.error))

\* A verification whose failure is ignored: the pipeline goes on to authenticate.
CodexVerifyLenient ==
    /\ pc = "c_verify"
    /\ LET r == WhichResult("codex")
       IN Advance(runAndLogCommand("verify", <<"which">>, <<<<"codex">>>>, r), 2, sbx, [loc EXCEPT !.cliCheck = r.success], "c_auth", NoResult)

\* which codex, logged (part_004 66-76)
CodexVerify ==
    /\ pc = "c_verify"
    /\ LET r == WhichResult("codex")
       IN Advance(runAndLogCommand("verify", <<"which">>, <<<<"codex">>>>, r), 2, sbx, [loc EXCEPT !.cliCheck = r.success],
                  IF r.success THEN "c_auth" ELSE "done",
                  IF r.success THEN NoResult ELSE FailResult("codex", <<"Codex CLI not found after installation. Please ensure it is properly installed.">>))

isOpenAIKey(apiKey) == StartsWith(apiKey, <<"s", "k", "-">>)

isOpenRouterKey(apiKey) == StartsWith(apiKey, <<"s", "k", "-", "o", "r", "-">>)

\* Characters of the key shown by the invalid-format message.
CodexKeyShown == 15

\* The invalid-format message (part_004 94).
CodexInvalidKey(apiKey) == <<"Invalid API key format. Expected to start with \"sk-\" (OpenAI) or \"sk-or-\" (OpenRouter), but got: \"">> \o (IF Substring0(apiKey, CodexKeyShown) # <<>> THEN Substring0(apiKey, CodexKeyShown) ELSE <<"undefined">>) \o <<"\"">>

keyType(apiKey) == IF isOpenRouterKey(apiKey) THEN "OpenRouter" ELSE IF isOpenAIKey(apiKey) THEN "OpenAI" ELSE "Custom"

\* credential checks, then codex --version (part_004 78-146)
CodexAuth ==
    /\ pc = "c_auth"
    /\ LET apiKey == inp.env.OPENROUTER_API_KEY
       IN IF ~Truthy(apiKey)
          THEN Advance(<<>>, 0, sbx, loc, "done", FailResult("codex", <<"OpenRouter API key not found. Please set OPENROUTER_API_KEY environment variable.">>))
          ELSE IF ~isOpenAIKey(apiKey) /\ ~isOpenRouterKey(apiKey)
          THEN Advance(<<Log("error", CodexInvalidKey(apiKey))>>, 0, sbx, loc, "done", FailResult("codex", CodexInvalidKey(apiKey)))
          ELSE Advance(<<Log("info", <<"Using ", keyType(apiKey), " API key for authentication">>), Log("info", <<"Setting up Codex CLI authentication with API key...">>), Log("info", <<"Configuring Codex CLI for API key authentication...">>), Cmd("diag", <<"codex", " ", "--version">>, <<<<"OPENAI_API_KEY", IF Truthy(inp.env.OPENAI_API_KEY) THEN inp.env.OPENAI_API_KEY ELSE Undefined>>, <<"HOME", <<"/home/vercel-sandbox">>>>>>, NoData), Log("info", <<"Codex CLI version test completed">>)>>,
                       4, sbx, [loc EXCEPT !.authMethod = keyType(apiKey)], "c_configure", NoResult)

\* selectedModel || 'openai/gpt-4o'
CodexModel == IF Truthy(inp.selectedModel) THEN inp.selectedModel ELSE <<"openai/gpt-4o">>

\* Object.entries(server.env) of the serialized (string) env: one entry per
\* character, keyed by its index.
CodexEnvEntries(env) == [i \in 1..Len(env) |-> <<<<ToString(i - 1)>>, <<env[i]>>>>]

\* The [mcp_servers.<slug>] table appended for one connector (part_004 194-232).
CodexEntry(server) ==
    IF server.type = "local"
    THEN [key |-> Slug(server.name), entry |-> [kind |-> "local", command |-> commandParts(server)[1], args |-> Tail(commandParts(server)), hasEnv |-> Truthy(server.env), env |-> IF Truthy(server.env) THEN CodexEnvEntries(server.env) ELSE <<>>]]
    ELSE [key |-> Slug(server.name), entry |-> [kind |-> "remote", url |-> server.baseUrl, headers |-> IF Truthy(server.oauthClientSecret) THEN <<<<"bearer_token", server.oauthClientSecret>>>> ELSE <<>>]]

\* configToml: model, provider table and one appended table per connector.
CodexConfigFile == [fmt |-> "codex-toml", model |-> CodexModel, model_provider |-> IF isOpenRouterKey(inp.env.OPENROUTER_API_KEY) \/ ~isOpenAIKey(inp.env.OPENROUTER_API_KEY) THEN "openrouter" ELSE "openai", env_key |-> "OPENROUTER_API_KEY", experimental_use_rmcp_client |-> \E i \in 1..Len(inp.mcpServers) : inp.mcpServers[i].type = "remote", mcp_servers |-> [i \in 1..Len(inp.mcpServers) |-> CodexEntry(inp.mcpServers[i])]]

\* What the Codex translation loop logs or throws for one connector.
CodexServerEvents(server) == IF server.name = Undefined \/ (server.type = "local" /\ server.command = Undefined) THEN <<Fault(TypeError)>> ELSE <<Log("info", IF server.type = "local" THEN <<"Added local MCP server">> ELSE <<"Added remote MCP server">>)>>

RECURSIVE CodexTranslationEvents(_)
CodexTranslationEvents(servers) == IF servers = <<>> THEN <<>> ELSE CodexServerEvents(Head(servers)) \o CodexTranslationEvents(Tail(servers))

\* A configuration written into the working directory of the command, the
\* project tree, instead of ~/.codex.
CodexConfigureInProject ==
    /\ pc = "c_configure"
    /\ \E ok \in BOOLEAN :
          LET pre == (IF inp.mcpServers # <<>> THEN <<Log("info", <<"Configuring MCP servers">>)>> \o CodexTranslationEvents(inp.mcpServers) ELSE <<>>) \o <<Log("info", <<"Creating Codex configuration file...">>)>>
          IN Advance(pre \o <<Cmd("config", <<"mkdir -p .codex && cat > .codex/config.toml">>, <<>>, CodexConfigFile), Log("info", <<"Codex config setup completed">>)>>,
                     Len(pre) + 1, IF ok THEN [sbx EXCEPT !.config = CodexConfigFile, !.dirty = TRUE] ELSE sbx, loc, "c_cfgverify", NoResult)

\* build config.toml and write ~/.codex/config.toml (part_004 148-250)
CodexConfigure ==
    /\ pc = "c_configure"
    /\ \E ok \in BOOLEAN :
          LET pre == (IF inp.mcpServers # <<>> THEN <<Log("info", <<"Configuring MCP servers">>)>> \o CodexTranslationEvents(inp.mcpServers) ELSE <<>>) \o <<Log("info", <<"Creating Codex configuration file...">>)>>
          IN Advance(pre \o <<Cmd("config", <<"mkdir -p ~/.codex && cat > ~/.codex/config.toml">>, <<>>, CodexConfigFile), Log("info", <<"Codex config setup completed">>)>>,
                     Len(pre) + 1, IF ok THEN [sbx EXCEPT !.config = CodexConfigFile] ELSE sbx, loc, "c_cfgverify", NoResult)

\* test -f ~/.codex/config.toml (part_004 252-263)
CodexConfigVerify ==
    /\ pc = "c_cfgverify"
    /\ \E ok \in BOOLEAN :
          Advance(<<Cmd("configcheck", <<"test -f ~/.codex/config.toml">>, <<<<"HOME", <<"/home/vercel-sandbox">>>>>>, NoData)>> \o (IF ok THEN <<Log("info", <<"Config file verified">>)>> ELSE <<>>), 1, sbx, loc, "c_ls", NoResult)

\* ls -la (part_004 265-269)
CodexList ==
    /\ pc = "c_ls"
    /\ Advance(<<Cmd("diag", <<"ls", " ", "-la">>, <<>>, NoData), Log("info", <<"Current directory contents retrieved">>)>>, 1, sbx, loc, "c_pwd", NoResult)

\* pwd (part_004 271-275)
CodexPwd ==
    /\ pc = "c_pwd"
    /\ Advance(<<Cmd("diag", <<"pwd">>, <<>>, NoData), Log("info", <<"Current working directory retrieved">>)>>, 1, sbx, loc, "c_exec", NoResult)

\* isResumed ? ['resume', '--last'] : ['exec', '--dangerously-bypass-approvals-and-sandbox']
CodexArgs == IF inp.isResumed THEN <<<<"resume">>, <<"--last">>>> ELSE <<<<"exec">>, <<"--dangerously-bypass-approvals-and-sandbox">>>>

\* Characters of the instruction shown in the logged command line.
CodexPreviewLen == 50

CodexLoggedCommand == <<"codex ">> \o JoinSp(CodexArgs) \o <<" \"">> \o Substring0(inp.instruction, CodexPreviewLen) \o <<"...\"">>

CodexEnv == <<<<"OPENROUTER_API_KEY", inp.env.OPENROUTER_API_KEY>>, <<"HOME", <<"/home/vercel-sandbox">>>>, <<"CI", <<"true">>>>>>

\* Logs of the captured output and error after the run (part_004 304-316).
CodexOutputLogs(r) == (IF Truthy(r.output) /\ Trim(r.output) # <<>> THEN <<Log("info", redactSensitiveInfo(Trim(r.output)))>> ELSE <<>>) \o (IF ~r.success /\ Truthy(r.error) /\ Trim(r.error) # <<>> THEN <<Log("error", redactSensitiveInfo(Trim(r.error))), Log("error", redactSensitiveInfo(Trim(r.error)))>> ELSE <<>>)

\* codex exec|resume <instruction> (part_004 277-316)
CodexExecute ==
    /\ pc = "c_exec"
    /\ \E run \in AgentRuns(inp.env) :
          LET pre == (IF inp.isResumed THEN <<Log("info", <<"Resuming previous Codex conversation">>)>> ELSE <<>>) \o <<Log("command", CodexLoggedCommand), Log("info", <<"Executing Codex with model ">> \o CodexModel \o <<" via ", IF isOpenRouterKey(inp.env.OPENROUTER_API_KEY) THEN "OpenRouter" ELSE "OpenAI API", " and bypassed sandbox restrictions">>)>>
          IN Advance(pre \o <<Cmd("exec", <<"codex ">> \o JoinSp(CodexArgs \o <<inp.instruction>>), CodexEnv, Ran(RunResult(run)))>> \o CodexOutputLogs(RunResult(run)),
                     Len(pre) + 1, [sbx EXCEPT !.dirty = sbx.dirty \/ run.changes], [loc EXCEPT !.attempts = 1, !.run = run], "c_final", NoResult)

\* The success result (part_004 337-346).
CodexSuccess(r, changed) == [success |-> TRUE, output |-> <<"Codex CLI executed successfully", ChangesNote(changed)>>, agentResponse |-> IF Truthy(r.output) THEN r.output ELSE <<"Codex CLI completed the task">>, cliName |-> <<"codex">>, changesDetected |-> changed, error |-> Undefined, sessionId |-> extractSessionId(r.output)]

\* The failure result (part_004 347-355).
CodexFailure(r, changed) == [success |-> FALSE, output |-> Undefined, agentResponse |-> r.output, cliName |-> <<"codex">>, changesDetected |-> changed, error |-> <<"Codex CLI failed (exit code ", ToString(r.exitCode), "): ">> \o (IF Truthy(r.error) THEN r.error ELSE <<"No error message">>), sessionId |-> extractSessionId(r.output)]

\* result.success || result.exitCode === 0
CodexSucceeded(r) == r.success \/ r.exitCode = 0

\* probe the project tree and return the result (part_004 320-356)
CodexInterpret ==
    /\ pc = "c_final"
    /\ \E g \in StatusResults :
          LET r == RunResult(loc.run)
          IN Advance(runAndLogCommand("status", <<"git">>, <<<<"status">>, <<"--porcelain">>>>, g), 2, sbx, [loc EXCEPT !.hasChanges = hasChanges(g)], "done",
                     IF CodexSucceeded(r) THEN CodexSuccess(r, hasChanges(g)) ELSE CodexFailure(r, hasChanges(g)))

Codex == CodexCheck \/ CodexInstall \/ CodexVerify \/ CodexAuth \/ CodexConfigure \/ CodexConfigVerify \/ CodexList \/ CodexPwd \/ CodexExecute \/ CodexInterpret

(***************************************************************************)
(* executeOpenCodeInSandbox                                                *)
(***************************************************************************)
\* credential presence check before anything else (part_005 57-73)
OpenCodeCredentials ==
    /\ pc = "o_creds"
    /\ LET none == ~Truthy(inp.env.OPENAI_API_KEY) /\ ~Truthy(inp.env.ANTHROPIC_API_KEY) /\ ~Truthy(inp.env.OPENROUTER_API_KEY)
           errorMsg == <<"OpenAI API key, Anthropic API key, or OpenRouter API key is required for OpenCode agent">>
       IN Advance(<<Log("info", <<"Starting OpenCode agent execution...">>)>> \o (IF none THEN <<Log("error", errorMsg)>> ELSE <<>>), 0, sbx, loc,
                  IF none THEN "done" ELSE "o_check", IF none THEN FailResult("opencode", errorMsg) ELSE NoResult)

\* which opencode, not logged (part_005 75-85)
OpenCodeCheck ==
    /\ pc = "o_check"
    /\ LET r == WhichResult("opencode")
       IN Advance(<<Cmd("check", <<"which", " ", "opencode">>, <<>>, Ran(r))>> \o (IF AlreadyInstalled(r, "opencode") THEN <<Log("info", <<"OpenCode CLI already installed, skipping installation">>)>> ELSE <<>>), 1, sbx, loc, IF AlreadyInstalled(r, "opencode") THEN "o_verify" ELSE "o_install", NoResult)

\* npm install -g opencode-ai (part_005 86-108)
OpenCodeInstall ==
    /\ pc = "o_install"
    /\ \E r \in InstallResults, b \in InstalledStates :
          Advance(<<Log("info", <<"Installing OpenCode CLI...">>)>> \o runAndLogCommand("install", <<"npm">>, <<<<"install">>, <<"-g">>, <<"opencode-ai">>>>, r) \o (IF r.success THEN <<Log("success", <<"OpenCode CLI installed successfully">>)>> ELSE <<>>),
                  3, IF r.success THEN [sbx EXCEPT !.bin = b] ELSE sbx, loc,
                  IF r.success THEN "o_verify" ELSE "done",
                  IF r.success THEN NoResult ELSE FailResult("opencode", <<"Failed to install OpenCode CLI: ">> \o (IF Truthy(r.error) THEN r.error ELSE <<"Unknown error">>)))

\* Where the pipeline goes once the binary is verified (OpenCode).
OpenCodeAfterConfigure == IF Truthy(inp.env.OPENAI_API_KEY) THEN "o_auth_openai" ELSE IF Truthy(inp.env.ANTHROPIC_API_KEY) THEN "o_auth_anthropic" ELSE "o_init"

OpenCodeAfterVerify == IF inp.mcpServers # <<>> THEN "o_configure" ELSE OpenCodeAfterConfigure

OpenCodeVerified == <<Log("success", <<"OpenCode CLI verified successfully">>)>>

\* opencode --version (part_005 110-113, 148-151)
OpenCodeVerify ==
    /\ pc = "o_verify"
    /\ LET r == IF sbx.bin = "present" THEN ResOk(<<"0.3.1", "\n">>) ELSE ResFail(<<"sh: opencode: not found">>)
       IN Advance(runAndLogCommand("verify", <<"opencode">>, <<<<"--version">>>>, r) \o (IF r.success THEN OpenCodeVerified ELSE <<>>), 2, sbx, [loc EXCEPT !.cliCheck = r.success],
                  IF r.success THEN OpenCodeAfterVerify ELSE "o_npmbin", NoResult)

\* Results of `npm bin -g`.
NpmBinResults == {ResOk(<<"/npm/bin", "\n">>), ResFail(<<"npm ERR! bin">>)}

\* npm bin -g after a failed verification (part_005 114-119, 138-145)
OpenCodeNpmBin ==
    /\ pc = "o_npmbin"
    /\ \E r \in NpmBinResults :
          LET found == r.success /\ Truthy(r.output)
          IN Advance(runAndLogCommand("verify", <<"npm">>, <<<<"bin">>, <<"-g">>>>, r), 2, sbx, [loc EXCEPT !.globalBinPath = IF found THEN Trim(r.output) ELSE <<>>],
                     IF found THEN "o_direct" ELSE "done",
                     IF found THEN NoResult ELSE FailResult("opencode", <<"OpenCode CLI not found after installation and could not determine npm global bin path.">>))

\* <npm global bin>/opencode --version (part_005 121-137, 148-151)
OpenCodeDirectPath ==
    /\ pc = "o_direct"
    /\ LET r == IF sbx.bin = "offpath" THEN ResOk(<<"0.3.1", "\n">>) ELSE ResFail(<<"sh: opencode: not found">>)
       IN Advance(runAndLogCommand("verify", loc.globalBinPath \o <<"/opencode">>, <<<<"--version">>>>, r) \o (IF r.success THEN OpenCodeVerified ELSE <<>>), 2, sbx, loc,
                  IF r.success THEN OpenCodeAfterVerify ELSE "done",
                  IF r.success THEN NoResult ELSE FailResult("opencode", <<"OpenCode CLI not found after installation. Tried both 'opencode' and '">> \o loc.globalBinPath \o <<"/opencode'. Installation may have failed.">>))

\* The ~/.opencode/config.json entry of one connector (part_005 170-216).
OpenCodeEntry(server) ==
    IF server.type = "local"
    THEN [kind |-> "local", command |-> commandParts(server), enabled |-> TRUE, hasEnv |-> Truthy(server.env) /\ JSONparse(server.env).ok, environment |-> IF Truthy(server.env) THEN JSONparse(server.env).map ELSE <<>>]
    ELSE [kind |-> "remote", url |-> server.baseUrl, enabled |-> TRUE, headers |-> RemoteHeaders(server)]

RECURSIVE OpenCodeMcp(_, _)
OpenCodeMcp(servers, acc) == IF servers = <<>> THEN acc ELSE OpenCodeMcp(Tail(servers), Put(acc, Slug(Head(servers).name), OpenCodeEntry(Head(servers))))

OpenCodeConfigFile == [fmt |-> "opencode-config", mcp |-> OpenCodeMcp(inp.mcpServers, <<>>)]

\* translate the connectors and write ~/.opencode/config.json (part_005 153-238)
OpenCodeConfigure ==
    /\ pc = "o_configure"
    /\ \E ok \in BOOLEAN :
          LET pre == <<Log("info", <<"Configuring MCP servers">>)>> \o TranslationEvents(inp.mcpServers) \o <<Log("info", <<"Creating OpenCode MCP configuration file...">>)>>
          IN Advance(pre \o <<Cmd("config", <<"mkdir -p ~/.opencode && cat > ~/.opencode/config.json">>, <<>>, OpenCodeConfigFile)>> \o <<Log("info", IF ok THEN <<"OpenCode configuration file (~/.opencode/config.json) created successfully">> ELSE <<"Warning: Failed to create OpenCode configuration file">>)>>,
                     Len(pre) + 1, IF ok THEN [sbx EXCEPT !.config = OpenCodeConfigFile] ELSE sbx, loc,
                     IF ok THEN "o_cfgverify" ELSE OpenCodeAfterConfigure, NoResult)

\* test -f ~/.opencode/config.json (part_005 231-235)
OpenCodeConfigVerify ==
    /\ pc = "o_cfgverify"
    /\ \E ok \in BOOLEAN :
          Advance(<<Cmd("configcheck", <<"test -f ~/.opencode/config.json">>, <<>>, NoData)>> \o (IF ok THEN <<Log("info", <<"OpenCode MCP configuration verified">>)>> ELSE <<>>), 1, sbx, loc, OpenCodeAfterConfigure, NoResult)

\* echo "<key>" | opencode auth add <provider>: the key is stored by the agent.
OpenCodeAuthAdd(provider, label, key, next) ==
    \E ok \in BOOLEAN :
        Advance(<<Log("info", <<"Configuring ", label, " provider...">>), Cmd("auth", <<"echo \"">> \o key \o <<"\" | opencode auth add ", provider>>, <<>>, [fmt |-> "opencode-auth", provider |-> provider, key |-> key])>> \o (IF ok THEN <<>> ELSE <<Log("info", <<"Failed to configure ", label, " provider, but continuing...">>)>>),
                2, IF ok THEN [sbx EXCEPT !.auth = sbx.auth \cup {[provider |-> provider, key |-> key]}] ELSE sbx, loc, next, NoResult)

\* OpenAI provider (part_005 245-265)
OpenCodeAuthOpenAI ==
    /\ pc = "o_auth_openai"
    /\ OpenCodeAuthAdd("openai", "OpenAI", inp.env.OPENAI_API_KEY, IF Truthy(inp.env.ANTHROPIC_API_KEY) THEN "o_auth_anthropic" ELSE "o_init")

\* Anthropic provider (part_005 267-287)
OpenCodeAuthAnthropic ==
    /\ pc = "o_auth_anthropic"
    /\ OpenCodeAuthAdd("anthropic", "Anthropic", inp.env.ANTHROPIC_API_KEY, "o_init")

\* choose the executable: npm bin -g again when `opencode` did not verify
\* (part_005 289-304)
OpenCodeInit ==
    /\ pc = "o_init"
    /\ IF loc.cliCheck
       THEN Advance(<<Log("info", <<"Initializing OpenCode for the project...">>)>>, 0, sbx, [loc EXCEPT !.opencodeCmdToUse = <<"opencode">>], "o_exec", NoResult)
       ELSE \E r \in NpmBinResults :
               Advance(<<Log("info", <<"Initializing OpenCode for the project...">>)>> \o runAndLogCommand("diag", <<"npm">>, <<<<"bin">>, <<"-g">>>>, r), 3, sbx,
                       [loc EXCEPT !.opencodeCmdToUse = IF r.success /\ Truthy(r.output) THEN Trim(r.output) \o <<"/opencode">> ELSE <<"opencode">>], "o_exec", NoResult)

\* isOpenRouter of mapModelName (part_005 310-313); no base URL is configured.
isOpenRouter == Truthy(inp.env.OPENROUTER_API_KEY)

\* mapModelName(selectedModel || 'gpt-5') for the models of this model
\* (part_005 309-385, 429).
mapModelName == IF Truthy(inp.selectedModel) THEN (IF isOpenRouter THEN <<"openrouter/">> \o inp.selectedModel ELSE inp.selectedModel) ELSE IF isOpenRouter THEN <<"openrouter/openai/gpt-4o">> ELSE <<"openai/gpt-4o">>

\* envVars of the execution command (part_005 386-411).
OpenCodeEnvVars == (IF Truthy(inp.env.OPENROUTER_API_KEY) THEN <<<<"OPENAI_API_KEY", inp.env.OPENROUTER_API_KEY>>, <<"OPENROUTER_API_KEY", inp.env.OPENROUTER_API_KEY>>>> ELSE IF Truthy(inp.env.OPENAI_API_KEY) THEN <<<<"OPENAI_API_KEY", inp.env.OPENAI_API_KEY>>>> ELSE <<>>) \o (IF Truthy(inp.env.ANTHROPIC_API_KEY) THEN <<<<"ANTHROPIC_API_KEY", inp.env.ANTHROPIC_API_KEY>>>> ELSE <<>>)

\* KEY="value" pairs joined by blanks (part_005 414-416).
RECURSIVE envPrefix(_)
envPrefix(pairs) == IF pairs = <<>> THEN <<>> ELSE <<pairs[1][1], "=\"">> \o pairs[1][2] \o <<"\"">> \o (IF Len(pairs) > 1 THEN <<" ">> ELSE <<>>) \o envPrefix(Tail(pairs))

\* Resumption flags (part_005 432-446).
sessionFlags == IF inp.isResumed THEN (IF Truthy(inp.sessionId) THEN <<" --session \"">> \o inp.sessionId \o <<"\"">> ELSE <<" --continue">>) ELSE <<>>

OpenCodeCommand(cmdToUse) == envPrefix(OpenCodeEnvVars) \o <<" ">> \o cmdToUse \o <<" run", " --model \"">> \o mapModelName \o <<"\"">> \o sessionFlags \o <<" \"">> \o inp.instruction \o <<"\"">>

ApiKeyNames == {"OPENAI_API_KEY", "OPENROUTER_API_KEY", "ANTHROPIC_API_KEY", "GEMINI_API_KEY", "GOOGLE_API_KEY"}

\* Place of the first quote at or after t[i], or 0.
QuoteFrom(t, i) == IF \E j \in i..Len(t) : t[j] = "\"" THEN CHOOSE j \in i..Len(t) : t[j] = "\"" /\ \A k \in i..(j - 1) : t[k] # "\"" ELSE 0

\* fullCommand.replace(/API_KEY="[^"]*"/g, 'API_KEY="[REDACTED]"')
RECURSIVE replaceApiKeys(_)
replaceApiKeys(t) ==
    IF t = <<>> THEN <<>>
    ELSE IF Len(t) >= 3 /\ t[1] \in ApiKeyNames /\ t[2] = "=\"" /\ QuoteFrom(t, 3) > 0
    THEN <<t[1], "=\"", "[REDACTED]", "\"">> \o replaceApiKeys(SubSeq(t, QuoteFrom(t, 3) + 1, Len(t)))
    ELSE <<Head(t)>> \o replaceApiKeys(Tail(t))

\* Logs after the run: stdout and stderr, each twice (part_005 457-472).
OpenCodeOutputLogs(stdout, stderr) == (IF Trim(stdout) # <<>> THEN <<Log("info", redactSensitiveInfo(Trim(stdout))), Log("info", redactSensitiveInfo(Trim(stdout)))>> ELSE <<>>) \o (IF Trim(stderr) # <<>> THEN <<Log("error", redactSensitiveInfo(Trim(stderr))), Log("error", redactSensitiveInfo(Trim(stderr)))>> ELSE <<>>)

\* opencode run (part_005 418-472)
OpenCodeExecute ==
    /\ pc = "o_exec"
    /\ \E run \in AgentRuns(inp.env) :
          LET pre == <<Log("info", <<"Executing OpenCode run command in non-interactive mode...">>)>> \o (IF Truthy(inp.selectedModel) THEN <<Log("info", <<"Using selected model">>)>> ELSE <<>>) \o (IF inp.isResumed THEN <<Log("info", IF Truthy(inp.sessionId) THEN <<"Resuming specific OpenCode session">> ELSE <<"Continuing last OpenCode session">>)>> ELSE <<>>) \o <<Log("command", replaceApiKeys(OpenCodeCommand(loc.opencodeCmdToUse)))>>
          IN Advance(pre \o <<Cmd("exec", OpenCodeCommand(loc.opencodeCmdToUse), OpenCodeEnvVars, Ran(RunResult(run)))>> \o OpenCodeOutputLogs(run.stdout, run.stderr),
                     Len(pre) + 1, [sbx EXCEPT !.dirty = sbx.dirty \/ run.changes], [loc EXCEPT !.attempts = 1, !.run = run], "o_final", NoResult)

\* successMsg (part_005 493).
OpenCodeSuccessMsg(changed) == <<"OpenCode executed successfully", ChangesNote(changed)>>

\* errorMsg (part_005 516).
OpenCodeErrorMsg(run) == <<"OpenCode failed (exit code ", ToString(run.exitCode), "): ">> \o (IF run.stderr # <<>> THEN run.stderr ELSE IF run.stdout # <<>> THEN run.stdout ELSE <<"No error message">>)

\* The success result (part_005 506-514).
OpenCodeSuccess(run, changed) == [success |-> TRUE, output |-> OpenCodeSuccessMsg(changed), agentResponse |-> IF run.stdout # <<>> THEN run.stdout ELSE <<"OpenCode completed the task">>, cliName |-> <<"opencode">>, changesDetected |-> changed, error |-> Undefined, sessionId |-> extractSessionId(run.stdout)]

\* The failure result (part_005 521-528).
OpenCodeFailure(run, changed) == [success |-> FALSE, output |-> Undefined, agentResponse |-> run.stdout, cliName |-> <<"opencode">>, changesDetected |-> changed, error |-> OpenCodeErrorMsg(run), sessionId |-> extractSessionId(run.stdout)]

\* executeResult.success || executeResult.exitCode === 0
OpenCodeSucceeded(run) == RunResult(run).success \/ run.exitCode = 0

\* probe the project tree, log the verdict, return the result (part_005 476-529)
OpenCodeInterpret ==
    /\ pc = "o_final"
    /\ \E g \in StatusResults :
          LET ok == OpenCodeSucceeded(loc.run)
              post == IF ok THEN <<Log("success", OpenCodeSuccessMsg(hasChanges(g)))>> \o (IF hasChanges(g) THEN <<Log("info", <<"Files checked for changes">>)>> ELSE <<>>) ELSE <<Log("error", OpenCodeErrorMsg(loc.run))>>
          IN Advance(runAndLogCommand("status", <<"git">>, <<<<"status">>, <<"--porcelain">>>>, g) \o post, 2, sbx, [loc EXCEPT !.hasChanges = hasChanges(g)], "done",
                     IF ok THEN OpenCodeSuccess(loc.run, hasChanges(g)) ELSE OpenCodeFailure(loc.run, hasChanges(g)))

OpenCode == OpenCodeCredentials \/ OpenCodeCheck \/ OpenCodeInstall \/ OpenCodeVerify \/ OpenCodeNpmBin \/ OpenCodeDirectPath \/ OpenCodeConfigure \/ OpenCodeConfigVerify \/ OpenCodeAuthOpenAI \/ OpenCodeAuthAnthropic \/ OpenCodeInit \/ OpenCodeExecute \/ OpenCodeInterpret

Next == Gemini \/ Codex \/ OpenCode

Spec == Init /\ [][Next]_vars

(***************************************************************************)
(* lib/sandbox/config.ts: validateEnvironmentVariables.  One call is one   *)
(* behaviour: inp holds the arguments and process.env, result the value    *)
(* returned.                                                               *)
(***************************************************************************)
\* Array.prototype.join(', ') of a list of texts.
RECURSIVE JoinComma(_)
JoinComma(ts) == IF ts = <<>> THEN <<>> ELSE IF Len(ts) = 1 THEN ts[1] ELSE ts[1] \o <<", ">> \o JoinComma(Tail(ts))

\* apiKeys?.K || process.env.K
hasKey(apiKeys, env, k) == Truthy(apiKeys[k]) \/ Truthy(env[k])

\* A validation that lets the gateway key stand in for the Gemini key.
validateGatewayForGemini(selectedAgent, githubToken, apiKeys, env) ==
    LET agent == IF selectedAgent = Undefined THEN <<"claude">> ELSE selectedAgent
        errors == (IF agent = <<"claude">> /\ ~hasKey(apiKeys, env, "OPENROUTER_API_KEY") THEN <<<<"OPENROUTER_API_KEY", " is required for Claude CLI. Please add your API key in your profile.">>>> ELSE <<>>)
                  \o (IF agent = <<"codex">> /\ ~hasKey(apiKeys, env, "OPENROUTER_API_KEY") THEN <<<<"OPENROUTER_API_KEY", " is required for Codex CLI. Please add your API key in your profile.">>>> ELSE <<>>)
                  \o (IF agent = <<"gemini">> /\ ~hasKey(apiKeys, env, "GEMINI_API_KEY") /\ ~hasKey(apiKeys, env, "OPENROUTER_API_KEY") THEN <<<<"GEMINI_API_KEY", " is required for Gemini CLI. Please add your API key in your profile.">>>> ELSE <<>>)
                  \o (IF agent = <<"cursor">> /\ ~hasKey(apiKeys, env, "CURSOR_API_KEY") THEN <<<<"CURSOR_API_KEY", " is required for Cursor CLI. Please add your API key in your profile.">>>> ELSE <<>>)
                  \o (IF agent = <<"opencode">> /\ ~hasKey(apiKeys, env, "OPENROUTER_API_KEY") /\ ~hasKey(apiKeys, env, "ANTHROPIC_API_KEY") THEN <<<<"Either ", "OPENROUTER_API_KEY", " or ", "ANTHROPIC_API_KEY", " is required for OpenCode CLI. Please add at least one API key in your profile.">>>> ELSE <<>>)
                  \o (IF ~Truthy(githubToken) THEN <<<<"GitHub", " is required for repository access. Please connect your GitHub account.">>>> ELSE <<>>)
                  \o (IF ~Truthy(env["VERCEL_TEAM_ID"]) THEN <<<<"VERCEL_TEAM_ID", " is required for sandbox creation">>>> ELSE <<>>)
                  \o (IF ~Truthy(env["VERCEL_PROJECT_ID"]) THEN <<<<"VERCEL_PROJECT_ID", " is required for sandbox creation">>>> ELSE <<>>)
                  \o (IF ~Truthy(env["VERCEL_TOKEN"]) THEN <<<<"VERCEL_TOKEN", " is required for sandbox creation">>>> ELSE <<>>)
    IN [valid |-> errors = <<>>, error |-> IF errors # <<>> THEN JoinComma(errors) ELSE Undefined]

\* validateEnvironmentVariables (config.ts 1-85): one message per missing
\* input, joined; selectedAgent defaults to 'claude'.
validateEnvironmentVariables(selectedAgent, githubToken, apiKeys, env) ==
    LET agent == IF selectedAgent = Undefined THEN <<"claude">> ELSE selectedAgent
        errors == (IF agent = <<"claude">> /\ ~hasKey(apiKeys, env, "OPENROUTER_API_KEY") THEN <<<<"OPENROUTER_API_KEY", " is required for Claude CLI. Please add your API key in your profile.">>>> ELSE <<>>)
                  \o (IF agent = <<"codex">> /\ ~hasKey(apiKeys, env, "OPENROUTER_API_KEY") THEN <<<<"OPENROUTER_API_KEY", " is required for Codex CLI. Please add your API key in your profile.">>>> ELSE <<>>)
                  \o (IF agent = <<"gemini">> /\ ~hasKey(apiKeys, env, "GEMINI_API_KEY") THEN <<<<"GEMINI_API_KEY", " is required for Gemini CLI. Please add your API key in your profile.">>>> ELSE <<>>)
                  \o (IF agent = <<"cursor">> /\ ~hasKey(apiKeys, env, "CURSOR_API_KEY") THEN <<<<"CURSOR_API_KEY", " is required for Cursor CLI. Please add your API key in your profile.">>>> ELSE <<>>)
                  \o (IF agent = <<"opencode">> /\ ~hasKey(apiKeys, env, "OPENROUTER_API_KEY") /\ ~hasKey(apiKeys, env, "ANTHROPIC_API_KEY") THEN <<<<"Either ", "OPENROUTER_API_KEY", " or ", "ANTHROPIC_API_KEY", " is required for OpenCode CLI. Please add at least one API key in your profile.">>>> ELSE <<>>)
                  \o (IF ~Truthy(githubToken) THEN <<<<"GitHub", " is required for repository access. Please connect your GitHub account.">>>> ELSE <<>>)
                  \o (IF ~Truthy(env["VERCEL_TEAM_ID"]) THEN <<<<"VERCEL_TEAM_ID", " is required for sandbox creation">>>> ELSE <<>>)
                  \o (IF ~Truthy(env["VERCEL_PROJECT_ID"]) THEN <<<<"VERCEL_PROJECT_ID", " is required for sandbox creation">>>> ELSE <<>>)
                  \o (IF ~Truthy(env["VERCEL_TOKEN"]) THEN <<<<"VERCEL_TOKEN", " is required for sandbox creation">>>> ELSE <<>>)
    IN [valid |-> errors = <<>>, error |-> IF errors # <<>> THEN JoinComma(errors) ELSE Undefined]

\* The agents a caller can select; undefined takes the default.
SelectableAgents == {Undefined, <<"claude">>, <<"codex">>, <<"gemini">>, <<"cursor">>, <<"opencode">>, <<"copilot">>}

\* The keys validateEnvironmentVariables reads from apiKeys and process.env,
\* and the sandbox variables it reads from process.env only.
ValidatedKeys == {"OPENROUTER_API_KEY", "GEMINI_API_KEY", "CURSOR_API_KEY", "ANTHROPIC_API_KEY"}

SandboxVariables == {"VERCEL_TEAM_ID", "VERCEL_PROJECT_ID", "VERCEL_TOKEN"}

\* The calls of validateEnvironmentVariables: every input absent or present,
\* a key coming from the profile (apiKeys), from process.env, or from both.
ValidateCalls == {[call |-> "validate", selectedAgent |-> a, githubToken |-> t, apiKeys |-> k, env |-> e] : a \in SelectableAgents, t \in {Undefined, <<"ghp_1">>}, k \in [ValidatedKeys -> {Undefined, <<"profile-key">>}], e \in [ValidatedKeys \cup SandboxVariables -> {Undefined, <<"env-value">>}]}

(***************************************************************************)
(* lib/sandbox/config.ts: createAuthenticatedRepoUrl                       *)
(***************************************************************************)
\* A URL text is spelled scheme, "://", [userinfo, "@"], host, [":", port],
\* path; anything else does not parse.
URLSchemes == {"https", "http"}

\* The host as the URL parser keeps it: ASCII letters lower-cased.
hostToLower(h) == IF h = "GitHub.com" THEN "github.com" ELSE IF h = "GitLab.com" THEN "gitlab.com" ELSE h

defaultPort(scheme) == IF scheme = "https" THEN "443" ELSE "80"

\* The port numbers and the paths (each begins with a slash) of the URLs spelled.
URLPorts == {"80", "443", "8443"}

URLPaths == {"/", "/o/r.git"}

\* new URL(repoUrl): the parsed record, or ok = FALSE where the constructor
\* throws (no scheme, a port that is no number, text after the host that is
\* neither a port nor a path).
parseURL(t) ==
    IF Len(t) < 3 \/ t[1] \notin URLSchemes \/ t[2] # "://" THEN [ok |-> FALSE]
    ELSE LET hasUser == Len(t) >= 5 /\ t[4] = "@"
             h == IF hasUser THEN 5 ELSE 3
             hasPort == Len(t) >= h + 1 /\ t[h + 1] = ":"
             p == IF hasPort THEN h + 3 ELSE h + 1
         IN IF (hasPort /\ (Len(t) < h + 2 \/ t[h + 2] \notin URLPorts)) \/ (p <= Len(t) /\ t[p] \notin URLPaths) THEN [ok |-> FALSE]
            ELSE [ok |-> TRUE, protocol |-> t[1], username |-> IF hasUser THEN <<t[3]>> ELSE <<>>, password |-> <<>>, hostname |-> hostToLower(t[h]),
                  port |-> IF hasPort /\ t[h + 2] # defaultPort(t[1]) THEN <<t[h + 2]>> ELSE <<>>,
                  pathname |-> IF p > Len(t) THEN <<"/">> ELSE SubSeq(t, p, Len(t))]

\* url.toString()
serializeURL(u) == <<u.protocol, "://">> \o (IF u.username # <<>> \/ u.password # <<>> THEN u.username \o (IF u.password # <<>> THEN <<":">> \o u.password ELSE <<>>) \o <<"@">> ELSE <<>>) \o <<u.hostname>> \o (IF u.port # <<>> THEN <<":">> \o u.port ELSE <<>>) \o u.pathname

\* A variant that embeds the token whatever the host.
createAuthenticatedRepoUrlAnyHost(repoUrl, githubToken) ==
    IF ~Truthy(githubToken) THEN repoUrl
    ELSE IF ~parseURL(repoUrl).ok THEN repoUrl
    ELSE serializeURL([parseURL(repoUrl) EXCEPT !.username = githubToken, !.password = <<"x-oauth-basic">>])

\* createAuthenticatedRepoUrl (config.ts 87-104)
createAuthenticatedRepoUrl(repoUrl, githubToken) ==
    IF ~Truthy(githubToken) THEN repoUrl
    ELSE IF ~parseURL(repoUrl).ok THEN repoUrl
    ELSE IF parseURL(repoUrl).hostname = "github.com"
    THEN serializeURL([parseURL(repoUrl) EXCEPT !.username = githubToken, !.password = <<"x-oauth-basic">>])
    ELSE serializeURL(parseURL(repoUrl))

\* Repository URLs: https and http URLs and the scp-like form, with and
\* without userinfo and port, for github.com, hosts that resemble it and
\* another forge.
RepoUrls == {pre \o user \o <<h>> \o port \o path :
                pre \in {<<"https", "://">>, <<"http", "://">>, <<>>},
                user \in {<<>>, <<"git", "@">>, <<"github.com", "@">>},
                h \in {"github.com", "GitHub.com", "www.github.com", "github.com.evil.io", "gitlab.com"},
                port \in {<<>>, <<":", "443">>, <<":", "8443">>},
                path \in {<<>>, <<"/o/r.git">>, <<":", "o/r.git">>}}

\* The calls of createAuthenticatedRepoUrl: no token, an empty one, a token.
RepoUrlCalls == {[call |-> "repoUrl", repoUrl |-> u, githubToken |-> t] : u \in RepoUrls, t \in {Undefined, <<>>, <<"ghp_1">>}}

(***************************************************************************)
(* Calls of the helper functions, one call per behaviour.                  *)
(***************************************************************************)
\* Longest connector name whose slug is derived.
MaxNameLen == 3

\* Characters of connector names: letters of both cases, a digit, a blank, a
\* hyphen, an underscore, and U+0130 whose lower-case form is two characters.
NameChars == {"M", "y", "7", " ", "-", "_", "U+0130"}

\* The derivations of a slug: every name of up to MaxNameLen characters.
SlugCalls == {[call |-> "slug", name |-> n] : n \in SeqsUpTo(NameChars, MaxNameLen)}

ConfigCalls == ValidateCalls \cup SlugCalls \cup RepoUrlCalls

ConfigInit ==
    /\ inp \in ConfigCalls
    /\ pc = inp.call
    /\ loc = InitLoc
    /\ sbx = [bin |-> "absent", config |-> NoData, auth |-> {}, dirty |-> FALSE]
    /\ trace = <<>>
    /\ result = NoResult
    /\ raised = FALSE

\* the call returns
ValidateEnvironment ==
    /\ pc = "validate"
    /\ result' = validateEnvironmentVariables(inp.selectedAgent, inp.githubToken, inp.apiKeys, inp.env)
    /\ pc' = "done"
    /\ UNCHANGED <<inp, loc, sbx, trace, raised>>

\* the slug of the name, and the slug of that slug
DeriveSlug ==
    /\ pc = "slug"
    /\ result' = [slug |-> Slug(inp.name), again |-> Slug(Slug(inp.name))]
    /\ pc' = "done"
    /\ UNCHANGED <<inp, loc, sbx, trace, raised>>

\* the call returns the URL to clone from
AuthenticateRepoUrl ==
    /\ pc = "repoUrl"
    /\ result' = createAuthenticatedRepoUrl(inp.repoUrl, inp.githubToken)
    /\ pc' = "done"
    /\ UNCHANGED <<inp, loc, sbx, trace, raised>>

ConfigNext == ValidateEnvironment \/ DeriveSlug \/ AuthenticateRepoUrl

ConfigSpec == ConfigInit /\ [][ConfigNext]_vars

(***************************************************************************)
(* Properties of the driver contract.                                      *)
(***************************************************************************)
\* The invocation has returned a result to its caller.
Returned == pc = "done" /\ ~raised

\* The agent execution commands issued so far, in order.
Execs == SelectSeq(trace, LAMBDA e : e.t = "cmd" /\ e.tag = "exec")

ExecIssued == Execs # <<>>

\* The exit code zero of the n-th execution attempt.
ExitZero(n) == n <= Len(Execs) /\ Execs[n].data.fmt = "ran" /\ Execs[n].data.result.exitCode = 0

\* The n-th execution attempt failed with the recoverable signature.
RecoverableExit(n) == n <= Len(Execs) /\ Execs[n].data.fmt = "ran" /\ Recoverable([exitCode |-> Execs[n].data.result.exitCode, stderr |-> Execs[n].data.result.error])

\* The status probe ran and reported a non-empty result.
ProbeNonEmpty == \E i \in 1..Len(trace) : trace[i].t = "cmd" /\ trace[i].tag = "status" /\ trace[i].data.fmt = "ran" /\ hasChanges(trace[i].data.result)

\* No credential of any kind the driver accepts is configured.
NoCredential ==
    IF inp.driver = "gemini" THEN GeminiAuthMethod(inp.env) = "oauth"
    ELSE IF inp.driver = "codex" THEN ~Truthy(inp.env.OPENROUTER_API_KEY)
    ELSE ~Truthy(inp.env.OPENAI_API_KEY) /\ ~Truthy(inp.env.ANTHROPIC_API_KEY) /\ ~Truthy(inp.env.OPENROUTER_API_KEY)

\* The configured credential does not match the scheme the driver expects.
MalformedCredential ==
    \/ inp.driver = "gemini" /\ Truthy(inp.env.GEMINI_API_KEY) /\ ~StartsWith(inp.env.GEMINI_API_KEY, GeminiKeyScheme)
    \/ inp.driver = "codex" /\ Truthy(inp.env.OPENROUTER_API_KEY) /\ ~isOpenAIKey(inp.env.OPENROUTER_API_KEY)

\* The text shows a configured credential value or a prefix of one.
ShowsCredential(t) == \E s \in Secrets(inp.env) : \E n \in 1..Len(s) : Contains(t, Substring0(s, n))

\* The steps that report on the credentials of the invocation.
CredentialSteps == {"g_auth", "c_auth", "o_creds"}

\* C1: no driver ever raises an exception to its caller, whatever the inputs
\* and whatever the logger and the command primitive do.
C1_NeverRaises == raised = FALSE

\* C2: no text handed to the logger contains a configured credential value.
C2_LogsRedacted == \A i \in 1..Len(trace) : trace[i].t = "log" => ~Leaks(trace[i].text)

\* C3: once the agent execution command was issued, the returned
\* changesDetected is true exactly when the status probe after the execution
\* reported a non-empty result.
C3_ChangeDetection == Returned /\ ExecIssued => (result.changesDetected <=> ProbeNonEmpty)

\* C4: when the agent changed the repository and the invocation then returns
\* success = false, the result still has changesDetected = true.
C4_PartialProgress == Returned /\ sbx.dirty /\ ~result.success => result.changesDetected

\* C5: every returned result carries the driver's name in cliName, and its
\* error is present exactly when success is false.
C5_ResultShape == Returned => result.cliName = <<inp.driver>> /\ (result.error # Undefined <=> ~result.success)

\* A result returned by a catch block after a malformed connector faulted.
C5_Witness == Returned /\ result.error = TypeError /\ result.cliName = <<inp.driver>>

\* C6: once the agent execution command was issued, the returned success is
\* true exactly when the final execution attempt ended with exit code zero.
C6_ExitSemantics == Returned /\ ExecIssued => (result.success <=> ExitZero(Len(Execs)))

\* C7: with no accepted credential configured the agent execution command is
\* never issued and the invocation returns success = false with an error.
C7_MissingCredential == NoCredential => ~ExecIssued /\ (Returned => ~result.success /\ result.error # Undefined)

\* C8: with a credential whose prefix does not match the expected scheme the
\* agent execution command is never issued and the invocation returns
\* success = false with an error.
C8_MalformedCredential == MalformedCredential => ~ExecIssued /\ (Returned => ~result.success /\ result.error # Undefined)

\* A step reporting on the credentials logs and returns texts that show no
\* credential value and no prefix of one.
CredentialReportClean == pc \in CredentialSteps => ((\A i \in (Len(trace) + 1)..Len(trace') : trace'[i].t = "log" => ~ShowsCredential(trace'[i].text)) /\ ~ShowsCredential(result'.error))

\* C9: what a step reporting on the credentials logs or returns as error shows
\* neither a credential value nor a prefix of one.
C9_NamesOnly == [][CredentialReportClean]_vars

\* C10: the Gemini driver issues the agent execution command at most three
\* times; three recoverable failures end in success = false, and a second
\* attempt that exits with code zero ends in success = true without a third.
C10_Ladder ==
    inp.driver = "gemini" =>
        /\ Len(Execs) <= 3
        /\ (Returned /\ RecoverableExit(1) /\ RecoverableExit(2) /\ RecoverableExit(3) => ~result.success)
        /\ (Returned /\ ExitZero(2) => result.success /\ Len(Execs) = 2)

\* The n-th execution attempt returned a non-zero exit code and a stderr that
\* contains both 'Tool' and 'not found in registry'.
RegistryFailure(n) == n <= Len(Execs) /\ Execs[n].data.fmt = "ran" /\ Execs[n].data.result.exitCode # 0 /\ Contains(Execs[n].data.result.error, <<"Tool">>) /\ Contains(Execs[n].data.result.error, <<"not found in registry">>)

\* C11: an execution attempt is followed by another one only when it failed
\* with the recoverable signature (non-zero exit, stderr naming a tool that is
\* not found in the registry).
C11_LadderEntry == \A n \in 1..(Len(Execs) - 1) : RegistryFailure(n)

\* An attempt failed without the signature and the invocation returned
\* without a second attempt.
C11_Witness == Returned /\ inp.driver = "gemini" /\ Len(Execs) = 1 /\ Execs[1].data.fmt = "ran" /\ Execs[1].data.result.exitCode # 0 /\ ~RegistryFailure(1)

\* The result object of the final execution attempt (it returned one).
LastExec == Execs[Len(Execs)].data.result

LastExecRan == ExecIssued /\ Execs[Len(Execs)].data.fmt = "ran"

\* C12: the returned result of the Gemini driver reports the final execution
\* attempt: success is its exit code being zero, a failure's error carries
\* its stderr, agentResponse is its stdout (or the placeholder), and no error
\* of an earlier attempt is reported when the final attempt succeeded.
C12_LastAttemptReported ==
    Returned /\ inp.driver = "gemini" /\ LastExecRan =>
        /\ result.success <=> LastExec.exitCode = 0
        /\ ~result.success /\ LastExec.error # <<>> => Contains(result.error, LastExec.error)
        /\ result.agentResponse = (IF LastExec.output = <<>> /\ result.success THEN <<"No detailed response available">> ELSE LastExec.output)
        /\ LastExec.exitCode = 0 => result.error = Undefined

\* The install-check probe returned and found the binary.
ProbeFound == \E i \in 1..Len(trace) : trace[i].t = "cmd" /\ trace[i].tag = "check" /\ trace[i].data.fmt = "ran" /\ trace[i].data.result.success

\* The install commands issued so far.
Installs == SelectSeq(trace, LAMBDA e : e.t = "cmd" /\ e.tag = "install")

\* C13: when the install-check probe finds the agent binary, the invocation
\* issues the install command zero times.
C13_IdempotentInstall == ProbeFound => Installs = <<>>

\* The probe found the binary and the agent was run without any install.
C13_Witness == ProbeFound /\ ExecIssued /\ Installs = <<>> /\ inp.driver = "codex"

\* All commands issued so far, in order.
Cmds == SelectSeq(trace, LAMBDA e : e.t = "cmd")

\* The install command returned a failure.
InstallFailed == Installs # <<>> /\ Installs[1].data.fmt = "ran" /\ ~Installs[1].data.result.success

\* C14: the install command is issued at most once, and when it fails no
\* command follows it and the invocation returns success = false,
\* changesDetected = false and an error carrying the raw install error.
C14_InstallFailure ==
    /\ Len(Installs) <= 1
    /\ InstallFailed =>
          /\ Cmds[Len(Cmds)].tag = "install"
          /\ Returned => ~result.success /\ ~result.changesDetected /\ Contains(result.error, Installs[1].data.result.error)

\* The commands that verify the binary is callable.
Verifies == SelectSeq(trace, LAMBDA e : e.t = "cmd" /\ e.tag = "verify")

\* The last verification command returned a failure: the binary could not be
\* confirmed callable.
VerificationFailed == Verifies # <<>> /\ Verifies[Len(Verifies)].data.fmt = "ran" /\ ~Verifies[Len(Verifies)].data.result.success

\* The opening of the install-failure messages of the three drivers.
InstallFailureOpenings == {"Failed to install Gemini CLI: ", "Failed to install Codex CLI: ", "Failed to install OpenCode CLI: "}

\* C15: when the binary cannot be confirmed callable the agent execution
\* command is never issued and the invocation returns success = false with an
\* error that is not the install-failure message.
C15_VerificationFailure == VerificationFailed => ~ExecIssued /\ (Returned => ~result.success /\ result.error # Undefined /\ result.error[1] \notin InstallFailureOpenings)

\* An install that reported success left a binary that is not callable, and
\* the invocation returned.
C15_Witness == Returned /\ VerificationFailed /\ Installs # <<>> /\ Installs[1].data.result.success /\ inp.driver = "codex"

\* The commands that write the agent's configuration artifact.
ConfigWrites == SelectSeq(trace, LAMBDA e : e.t = "cmd" /\ e.tag = "config")

\* The connector entries held by a configuration artifact.
ConnectorEntries(file) == IF file.fmt = "gemini-settings" THEN file.mcpServers ELSE IF file.fmt = "codex-toml" THEN file.mcp_servers ELSE IF file.fmt = "opencode-config" THEN file.mcp ELSE <<>>

\* The driver saw its configuration write succeed (Gemini, OpenCode: the
\* success message; Codex reads no outcome: the file is there).
ConfigWriteSucceeded == ConfigWrites # <<>> /\ IF inp.driver = "codex" THEN sbx.config # NoData ELSE \E i \in 1..Len(trace) : trace[i].t = "log" /\ trace[i].text \in {<<"Gemini settings.json file created successfully">>, <<"OpenCode configuration file (~/.opencode/config.json) created successfully">>}

\* C16: with a non-empty connector list whose configuration write succeeded,
\* once the agent execution command is issued the configuration artifact
\* holds the translated connector entries that were written.
C16_ConfigPreserved == ExecIssued /\ inp.mcpServers # <<>> /\ ConfigWriteSucceeded => ConnectorEntries(sbx.config) # <<>> /\ ConnectorEntries(sbx.config) = ConnectorEntries(ConfigWrites[1].data)

\* C17: a failing log append never aborts the pipeline: no invocation ends by
\* raising out of the catch block's own log append, and no returned result is
\* the failure built from a log append that threw.
C17_SinkFailuresContained == pc = "done" => ~raised /\ result.error # LogSinkError

\* The atoms of the n-th execution command line.
ExecAtoms(n) == {Execs[n].text[i] : i \in 1..Len(Execs[n].text)}

\* The flags that target one session, continue the most recent one, or resume.
SessionTargetFlags == {" --session \"", "--session"}

ContinueFlags == {" --continue", "--last"}

\* C18: for the drivers that take isResumed and sessionId, the execution
\* command targets exactly the given session when resuming with a sessionId,
\* continues the most recent session when resuming without one, and carries no
\* resumption flag at all when not resuming.
C18_Resumption == inp.driver \in {"codex", "opencode"} /\ ExecIssued => IF inp.isResumed /\ Truthy(inp.sessionId) THEN Contains(Execs[1].text, inp.sessionId) /\ ExecAtoms(1) \cap ContinueFlags = {} ELSE IF inp.isResumed THEN ExecAtoms(1) \cap ContinueFlags # {} /\ ExecAtoms(1) \cap SessionTargetFlags = {} ELSE ExecAtoms(1) \cap (ContinueFlags \cup SessionTargetFlags \cup {"resume"}) = {}

\* The flag of each driver that suppresses interactive approval prompts.
ApprovalFlag(d) == IF d = "gemini" THEN "--yolo" ELSE "--dangerously-bypass-approvals-and-sandbox"

\* C19: the first execution attempt of Gemini and of Codex, fresh or resumed,
\* carries the driver's approval-suppressing flag.
C19_ApprovalFlags == inp.driver \in {"gemini", "codex"} /\ ExecIssued => ApprovalFlag(inp.driver) \in ExecAtoms(1)

\* Executable, argument list and environment map of a local entry as each
\* driver's artifact lays them out.
EntryExecutable(d, entry) == IF d = "opencode" THEN entry.command[1] ELSE entry.command

EntryArgs(d, entry) == IF d = "opencode" THEN Tail(entry.command) ELSE entry.args

EntryEnv(d, entry) == IF d = "opencode" THEN entry.environment ELSE entry.env

\* What the connector 'My T1' with command ' foo  --bar' and env {"X":"1"}
\* translates to: slug my-t1, executable foo, arguments [--bar], environment {X: 1}.
ExpectedLocal == [key |-> <<"m", "y", "-", "t", "1">>, executable |-> "foo", args |-> <<"--bar">>, env |-> <<<<<<"X">>, <<"1">>>>>>]

\* C20: in the configuration artifact every driver writes, a local connector
\* has an entry keyed by the slug of its name that carries the executable, the
\* remaining tokens as arguments and the decoded environment map.
C20_LocalEntry == ConfigWrites # <<>> => \A i \in 1..Len(inp.mcpServers) : inp.mcpServers[i] = LocalConnector => \E j \in 1..Len(ConnectorEntries(ConfigWrites[1].data)) : LET e == ConnectorEntries(ConfigWrites[1].data)[j] IN e.key = ExpectedLocal.key /\ e.entry.kind = "local" /\ EntryExecutable(inp.driver, e.entry) = ExpectedLocal.executable /\ EntryArgs(inp.driver, e.entry) = ExpectedLocal.args /\ EntryEnv(inp.driver, e.entry) = ExpectedLocal.env

\* The base URL of a remote entry as each driver's artifact lays it out.
EntryUrl(d, entry) == IF d = "gemini" THEN entry.httpUrl ELSE entry.url

\* The headers of a remote entry that carry a bearer-style credential, and
\* those that identify the client.
BearerHeaders(entry) == {entry.headers[k] : k \in {n \in 1..Len(entry.headers) : entry.headers[n][1] \in {"Authorization", "bearer_token"}}}

ClientIdHeaders(entry) == {entry.headers[k] : k \in {n \in 1..Len(entry.headers) : entry.headers[n][1] = "X-Client-ID"}}

\* C21: in the configuration artifact every driver writes, a remote connector
\* has an entry that carries the base URL, a bearer-style credential derived
\* from oauthClientSecret exactly when the secret is present, and an
\* identifying header derived from oauthClientId exactly when the id is present.
C21_RemoteEntry == ConfigWrites # <<>> => \A i \in 1..Len(inp.mcpServers) : inp.mcpServers[i].type = "remote" => \E j \in 1..Len(ConnectorEntries(ConfigWrites[1].data)) : LET server == inp.mcpServers[i] e == ConnectorEntries(ConfigWrites[1].data)[j] IN e.key = Slug(server.name) /\ e.entry.kind = "remote" /\ EntryUrl(inp.driver, e.entry) = server.baseUrl /\ (Truthy(server.oauthClientSecret) <=> BearerHeaders(e.entry) # {}) /\ (\A h \in BearerHeaders(e.entry) : Contains(h[2], server.oauthClientSecret)) /\ (Truthy(server.oauthClientId) <=> ClientIdHeaders(e.entry) # {}) /\ (\A h \in ClientIdHeaders(e.entry) : h[2] = server.oauthClientId)

\* The steps that translate, write and verify the connector configuration.
ConfigSteps == {"g_configure", "g_cfgverify", "c_configure", "c_cfgverify", "o_configure", "o_cfgverify"}

\* The secret material of one connector: the OAuth secret, the serialized
\* environment map and each of its decoded values.
ConnectorSecretMaterial(server) == (IF Truthy(server.oauthClientSecret) THEN {server.oauthClientSecret} ELSE {}) \cup (IF Truthy(server.env) THEN {server.env} \cup {JSONparse(server.env).map[k][2] : k \in 1..Len(JSONparse(server.env).map)} ELSE {})

\* The text shows secret material of some connector of the invocation.
ShowsConnectorSecret(t) == \E i \in 1..Len(inp.mcpServers) : \E m \in ConnectorSecretMaterial(inp.mcpServers[i]) : Contains(t, m)

\* The commands that only test that the configuration artifact exists.
ExistenceTests == {<<"test -f ~/.gemini/settings.json">>, <<"test -f ~/.codex/config.toml">>, <<"test -f ~/.opencode/config.json">>}

\* What a configuration step appends: log lines without connector secrets,
\* and a verification that is an existence test.
ConfigStepClean == pc \in ConfigSteps => \A i \in (Len(trace) + 1)..Len(trace') : (trace'[i].t = "log" => ~ShowsConnectorSecret(trace'[i].text)) /\ (trace'[i].t = "cmd" /\ trace'[i].tag = "configcheck" => trace'[i].text \in ExistenceTests)

ConfigWriteSteps == {"g_configure", "c_configure", "o_configure"}

\* The log lines that report the configuration as written or completed.
ConfigCompletedMessages == {<<"Gemini settings.json file created successfully">>, <<"OpenCode configuration file (~/.opencode/config.json) created successfully">>, <<"Codex config setup completed">>}

\* The log lines that warn of a failed write.
ConfigWarningMessages == {<<"Warning: Failed to create Gemini settings.json file">>, <<"Warning: Failed to create OpenCode configuration file">>, <<"Warning: Failed to create Codex configuration file">>}

\* The step issued the write, the write left the artifact as it was, and the
\* pipeline went on.
ConfigWriteFailedStep == pc \in ConfigWriteSteps /\ pc' # "done" /\ sbx'.config = sbx.config

\* A failed write is followed by a warning and by no report of completion.
ConfigWriteFailureSurfaced == ConfigWriteFailedStep => (\E i \in (Len(trace) + 1)..Len(trace') : trace'[i].t = "log" /\ trace'[i].kind = "info" /\ trace'[i].text \in ConfigWarningMessages) /\ (\A i \in (Len(trace) + 1)..Len(trace') : trace'[i].t = "log" => trace'[i].text \notin ConfigCompletedMessages)

\* C23: when the command writing the configuration artifact fails and the
\* pipeline goes on, the step logs an info-level warning about the failure and
\* logs no message reporting the configuration as written or completed.
C23_WriteFailureSurfaced == [][ConfigWriteFailureSurfaced]_vars

\* The commands still in flight when the i-th event happens: those launched
\* earlier without being awaited.  An awaited command has its terminal exit
\* code before the next event of the pipeline.
CommandsInFlight(i) == {j \in 1..(i - 1) : trace[j].t = "cmd" /\ trace[j].safe}

IssuesExec == \E i \in (Len(trace) + 1)..Len(trace') : trace'[i].t = "cmd" /\ trace'[i].tag = "exec"

\* A step that runs only commands of the orchestrator leaves the project tree
\* as it was.
OrchestratorFrame == ~IssuesExec => sbx'.dirty = sbx.dirty

BothSources == inp.driver = "opencode" /\ Truthy(inp.env.OPENROUTER_API_KEY) /\ (Truthy(inp.env.OPENAI_API_KEY) \/ Truthy(inp.env.ANTHROPIC_API_KEY))

\* The values of the environment variables handed to the first agent execution.
ExecEnvValues == {Execs[1].env[k][2] : k \in 1..Len(Execs[1].env)}

\* The gateway is the source of the credential handed to the agent.
GatewayChosen == \E k \in 1..Len(Execs[1].env) : Execs[1].env[k] = <<"OPENAI_API_KEY", inp.env.OPENROUTER_API_KEY>>

\* The model handed to the first agent execution is routed through the gateway.
GatewayRouted == ExecAtoms(1) \cap {"openrouter/", "openrouter/openai/gpt-4o"} # {}

\* The authentication commands issued, and the atoms of the log lines.
AuthCommands == SelectSeq(trace, LAMBDA e : e.t = "cmd" /\ e.tag = "auth")

LoggedAtoms == UNION {{trace[i].text[k] : k \in 1..Len(trace[i].text)} : i \in {n \in 1..Len(trace) : trace[n].t = "log"}}

\* C26: with both a gateway key and a native key present, the OpenCode driver
\* hands the agent the credential and the model routing of one source only,
\* configures only that source, and names it in an authentication log line.
C26_CredentialPrecedence == BothSources /\ ExecIssued => IF GatewayChosen THEN GatewayRouted /\ AuthCommands = <<>> /\ ExecEnvValues \cap {inp.env.OPENAI_API_KEY, inp.env.ANTHROPIC_API_KEY} = {} /\ "OpenRouter" \in LoggedAtoms ELSE ~GatewayRouted /\ inp.env.OPENROUTER_API_KEY \notin ExecEnvValues /\ LoggedAtoms \cap {"OpenAI", "Anthropic"} # {}

\* The first atoms of the log lines of the authentication step of each driver.
AuthenticationMarks == {"Gemini API key detected (prefix: ", "Using Vertex AI auth", "Using Google Cloud Project auth (requires OAuth login)", "WARNING: No GEMINI_API_KEY found - CLI will attempt OAuth which cannot work in sandbox", "Using ", "Configuring "}

\* The phase an event belongs to: 1 install check, 2 install, 3 verify,
\* 4 authenticate, 5 configure, 6 execute; 0 for the events of no phase.
PhaseOf(e) == IF e.t = "cmd" THEN (IF e.tag = "check" THEN 1 ELSE IF e.tag = "install" THEN 2 ELSE IF e.tag = "verify" THEN 3 ELSE IF e.tag = "auth" THEN 4 ELSE IF e.tag \in {"config", "configcheck"} THEN 5 ELSE IF e.tag = "exec" THEN 6 ELSE 0) ELSE IF e.t = "log" /\ e.text # <<>> /\ e.text[1] \in AuthenticationMarks THEN 4 ELSE 0

\* C27: in an invocation that issued the agent execution command the phases
\* occurred in the order install check, install, verify, authenticate,
\* configure, execute: no event of a phase comes after an event of a later one.
C27_PhaseOrder == ExecIssued => \A i, j \in 1..Len(trace) : i < j /\ PhaseOf(trace[i]) > 0 /\ PhaseOf(trace[j]) > 0 => PhaseOf(trace[i]) <= PhaseOf(trace[j])

\* The last execution attempt returned a non-zero exit code without the
\* recoverable signature.
ExecutionFailed == LastExecRan /\ LastExec.exitCode # 0 /\ ~RegistryFailure(Len(Execs))

\* The text reports the exit code n the way the drivers' failure messages do.
ShowsExitCode(t, n) == \E i \in 1..(Len(t) - 1) : t[i] \in {"Gemini CLI failed (exit code ", "Codex CLI failed (exit code ", "OpenCode failed (exit code "} /\ t[i + 1] = ToString(n)

\* C28: when the last execution attempt failed without the recoverable
\* signature, the returned error includes the exit code and the redacted
\* captured stderr, and shows no configured credential value.
C28_ExecutionFailureError == Returned /\ ExecutionFailed => ~result.success /\ ShowsExitCode(result.error, LastExec.exitCode) /\ (LastExec.error # <<>> => Contains(result.error, RedactWith(LastExec.error, inp.env))) /\ ~Leaks(result.error)

\* The output summary says that changes were detected, or that none were made.
SaysChanged(t) == \E i \in 1..Len(t) : t[i] = " (Changes detected)"

SaysUnchanged(t) == \E i \in 1..Len(t) : t[i] = " (No changes made)"

\* C29: a result returned after the agent execution command was issued has
\* an output summary that says 'Changes detected' exactly when changesDetected
\* is true and says that no changes were made otherwise.
C29_OutputSummary == Returned /\ ExecIssued => result.output # Undefined /\ (SaysChanged(result.output) <=> result.changesDetected) /\ (SaysUnchanged(result.output) <=> ~result.changesDetected)

\* C30: a result returned after the agent execution command was issued has
\* an agentResponse that is neither absent nor empty: the raw text captured
\* from the last attempt when there is any, a placeholder otherwise.
C30_AgentResponse == Returned /\ ExecIssued => result.agentResponse # Undefined /\ result.agentResponse # <<>> /\ (LastExecRan /\ Truthy(LastExec.output) => result.agentResponse = LastExec.output)

\* The credential inputs one of which the selected agent requires (none for
\* an agent that authenticates with the GitHub token).
RequiredCredentials(agent) == IF agent \in {Undefined, <<"claude">>, <<"codex">>} THEN {"OPENROUTER_API_KEY"} ELSE IF agent = <<"gemini">> THEN {"GEMINI_API_KEY"} ELSE IF agent = <<"cursor">> THEN {"CURSOR_API_KEY"} ELSE IF agent = <<"opencode">> THEN {"OPENROUTER_API_KEY", "ANTHROPIC_API_KEY"} ELSE {}

\* The names of the required inputs that a validate call lacks.
AbsentInputs == (IF \E k \in RequiredCredentials(inp.selectedAgent) : Truthy(inp.apiKeys[k]) \/ Truthy(inp.env[k]) THEN {} ELSE RequiredCredentials(inp.selectedAgent)) \cup (IF Truthy(inp.githubToken) THEN {} ELSE {"GitHub"}) \cup {v \in SandboxVariables : ~Truthy(inp.env[v])}

\* C31: validateEnvironmentVariables returns valid = true exactly when no
\* required input is absent, then with no error; otherwise the error names
\* every absent input and no input that is present.  The credential each
\* agent requires is fixed (for gemini only GEMINI_API_KEY).
C31_Validation == pc = "done" /\ inp.call = "validate" => (result.valid <=> AbsentInputs = {}) /\ (result.valid => result.error = Undefined) /\ (~result.valid => result.error # Undefined /\ {result.error[i] : i \in 1..Len(result.error)} \cap (ValidatedKeys \cup SandboxVariables \cup {"GitHub"}) = AbsentInputs)

\* gemini was validated with only the gateway key configured, and rejected.
C31_Witness == pc = "done" /\ inp.call = "validate" /\ inp.selectedAgent = <<"gemini">> /\ Truthy(inp.env["OPENROUTER_API_KEY"]) /\ ~Truthy(inp.env["GEMINI_API_KEY"]) /\ ~Truthy(inp.apiKeys["GEMINI_API_KEY"]) /\ ~result.valid /\ "GEMINI_API_KEY" \in {result.error[i] : i \in 1..Len(result.error)}

\* The status probes issued so far.
Probes == SelectSeq(trace, LAMBDA e : e.t = "cmd" /\ e.tag = "status")

\* A clean run: the install check found no binary, an accepted credential of
\* the expected scheme is configured, every later command returned success,
\* the agent exited with code zero and the status probe reported nothing.
CleanRun ==
    /\ ~NoCredential
    /\ ~MalformedCredential
    /\ Cmds # <<>>
    /\ Cmds[1].tag = "check" /\ Cmds[1].data.fmt = "ran" /\ ~Cmds[1].data.result.success
    /\ \A i \in 2..Len(Cmds) : Cmds[i].data.fmt # "threw" /\ (Cmds[i].data.fmt = "ran" => Cmds[i].data.result.success)
    /\ ConfigWrites # <<>> => ConfigWriteSucceeded
    /\ Execs # <<>> /\ ExitZero(Len(Execs))
    /\ Probes # <<>> /\ ~ProbeNonEmpty

\* C32: a clean run of any driver ends by returning success = true,
\* changesDetected = false and the driver's name in cliName, after exactly one
\* install command and exactly one agent execution command.
C32_CleanRun == pc = "done" /\ CleanRun => Returned /\ result.success /\ ~result.changesDetected /\ result.cliName = <<inp.driver>> /\ Len(Installs) = 1 /\ Len(Execs) = 1

\* The drivers that look for a session identifier in the captured output.
SessionDrivers == {"codex", "opencode"}

\* The output captured from the agent execution command.
CapturedOutput == Execs[Len(Execs)].data.result.output

\* C33: for the Codex and OpenCode drivers, once the agent execution command
\* has returned, the returned sessionId is the identifier found in the
\* captured output, on success and on failure alike, and is omitted when the
\* output holds none; it is never taken from the sessionId passed in.
C33_SessionId == Returned /\ inp.driver \in SessionDrivers /\ ExecIssued /\ Execs[Len(Execs)].data.fmt = "ran" => result.sessionId = extractSessionId(CapturedOutput)

\* The credential values that files of the environment hold: the apiKey field
\* of ~/.gemini/settings.json and the keys stored by `opencode auth add`.
StoredCredentials == (IF sbx.config.fmt = "gemini-auth" THEN {sbx.config.apiKey} ELSE {}) \cup {a.key : a \in sbx.auth}

\* C34: no file of the environment holds a raw credential value: the
\* authentication step writes none, credentials reach the agent only through
\* the environment variables of the execution command.
C34_NoCredentialInFiles == StoredCredentials \cap Secrets(inp.env) = {}

\* The method the precedence GEMINI_API_KEY, GOOGLE_API_KEY together with
\* GOOGLE_GENAI_USE_VERTEXAI, GOOGLE_CLOUD_PROJECT, interactive OAuth selects.
MethodByPrecedence == IF Truthy(inp.env.GEMINI_API_KEY) THEN "api_key" ELSE IF Truthy(inp.env.GOOGLE_API_KEY) /\ Truthy(inp.env.GOOGLE_GENAI_USE_VERTEXAI) THEN "vertex_ai" ELSE IF Truthy(inp.env.GOOGLE_CLOUD_PROJECT) THEN "oauth_project" ELSE "oauth"

\* The credential variables of a method, with the values they are handed over with.
MethodVariables(m) == IF m = "api_key" THEN {<<"GEMINI_API_KEY", inp.env.GEMINI_API_KEY>>} ELSE IF m = "vertex_ai" THEN {<<"GOOGLE_API_KEY", inp.env.GOOGLE_API_KEY>>, <<"GOOGLE_GENAI_USE_VERTEXAI", <<"true">>>>} ELSE IF m = "oauth_project" THEN {<<"GOOGLE_CLOUD_PROJECT", inp.env.GOOGLE_CLOUD_PROJECT>>} ELSE {}

GeminiCredentialVariables == {"GEMINI_API_KEY", "GOOGLE_API_KEY", "GOOGLE_GENAI_USE_VERTEXAI", "GOOGLE_CLOUD_PROJECT", "OPENROUTER_API_KEY", "OPENAI_API_KEY", "ANTHROPIC_API_KEY"}

\* The credential variables in the environment of the n-th execution attempt.
ExecCredentials(n) == {Execs[n].env[i] : i \in {k \in 1..Len(Execs[n].env) : Execs[n].env[k][1] \in GeminiCredentialVariables}}

\* The opening of the log message that announces a method.
MethodMessage(m) == IF m = "api_key" THEN "Gemini API key detected (prefix: " ELSE IF m = "vertex_ai" THEN "Using Vertex AI auth" ELSE IF m = "oauth_project" THEN "Using Google Cloud Project auth (requires OAuth login)" ELSE "WARNING: No GEMINI_API_KEY found - CLI will attempt OAuth which cannot work in sandbox"

\* The methods announced by the log messages emitted so far, in order.
MethodsAnnounced == SelectSeq(trace, LAMBDA e : e.t = "log" /\ e.text # <<>> /\ e.text[1] \in {MethodMessage(m) : m \in {"api_key", "vertex_ai", "oauth_project", "oauth"}})

\* C35: a Gemini invocation that issued the agent execution command selected
\* the method the precedence GEMINI_API_KEY, GOOGLE_API_KEY with
\* GOOGLE_GENAI_USE_VERTEXAI, GOOGLE_CLOUD_PROJECT, OAuth gives; every
\* execution command carries the credential variables of that method and no
\* other, and exactly one log message announces a method, the selected one.
C35_GeminiAuthentication == inp.driver = "gemini" /\ ExecIssued => loc.authMethod = MethodByPrecedence /\ (\A n \in 1..Len(Execs) : ExecCredentials(n) = MethodVariables(MethodByPrecedence)) /\ Len(MethodsAnnounced) = 1 /\ MethodsAnnounced[1].text[1] = MethodMessage(MethodByPrecedence)

\* All four sources were configured and the agent ran with the API key alone.
C35_Witness == inp.driver = "gemini" /\ ExecIssued /\ Truthy(inp.env.GEMINI_API_KEY) /\ Truthy(inp.env.GOOGLE_API_KEY) /\ Truthy(inp.env.GOOGLE_CLOUD_PROJECT) /\ ExecCredentials(1) = {<<"GEMINI_API_KEY", inp.env.GEMINI_API_KEY>>}

StreamingFlags == {"--yolo", "-o", "stream-json"}

AutoEditFlags == {"--approval-mode", "auto_edit"}

\* The command line of the n-th execution attempt from its prompt flag on.
PromptOf(n) == LET t == Execs[n].text IN SubSeq(t, CHOOSE i \in 1..Len(t) : t[i] = " -p '", Len(t))

\* The n-th execution attempt runs in the project directory, carries the
\* instruction and the environment of the first attempt, and carries the
\* selected-model flag exactly when a model was selected.
SamePayload(n) ==
    /\ SubSeq(Execs[n].text, 1, 2) = <<"cd ", "PROJECT_DIR">>
    /\ PromptOf(n) = PromptOf(1)
    /\ Contains(PromptOf(n), inp.instruction)
    /\ Execs[n].env = Execs[1].env
    /\ IF Truthy(inp.selectedModel) THEN Contains(Execs[n].text, <<"-m", " ">> \o inp.selectedModel) ELSE "-m" \notin ExecAtoms(n)

\* C36: the attempts of the Gemini ladder carry '--yolo -o stream-json', then
\* '--approval-mode auto_edit' without them, then neither; every attempt has
\* the instruction, the selected-model flag, the environment and the project
\* directory of the first, and an attempt is issued only after the one before
\* it has returned.
C36_LadderFlags ==
    inp.driver = "gemini" =>
        /\ Len(Execs) >= 1 => StreamingFlags \subseteq ExecAtoms(1) /\ AutoEditFlags \cap ExecAtoms(1) = {}
        /\ Len(Execs) >= 2 => AutoEditFlags \subseteq ExecAtoms(2) /\ StreamingFlags \cap ExecAtoms(2) = {}
        /\ Len(Execs) >= 3 => (StreamingFlags \cup AutoEditFlags) \cap ExecAtoms(3) = {}
        /\ \A n \in 1..Len(Execs) : SamePayload(n) /\ ~Execs[n].safe /\ (n < Len(Execs) => Execs[n].data.fmt = "ran")

\* The ladder reached its third attempt with a model selected.
C36_Witness == inp.driver = "gemini" /\ Len(Execs) = 3 /\ Truthy(inp.selectedModel) /\ Execs[3].data.fmt = "ran"

\* The characters [a-z0-9-].
SlugAlphabet == {LowerCase[i] : i \in 1..Len(LowerCase)} \cup Digits \cup {"-"}

\* What the derivation makes of one character whose lower-case form is one
\* character: the small letter of a capital, the character itself when it is
\* in [a-z0-9], a hyphen otherwise.
SlugCharOf(c) == IF \E i \in 1..Len(UpperCase) : UpperCase[i] = c THEN LowerCase[CHOOSE i \in 1..Len(UpperCase) : UpperCase[i] = c] ELSE IF c \in SlugAlphabet THEN c ELSE "-"

\* The characters of the name whose lower-case form is longer than one character.
Lengthening == {i \in 1..Len(inp.name) : inp.name[i] = "U+0130"}

\* C37 as stated: the slug has the length of the name, contains only
\* characters of [a-z0-9-], and the slug of the slug is the slug.
C37_SlugSameLength == pc = "done" /\ inp.call = "slug" => Len(result.slug) = Len(inp.name) /\ (\A i \in 1..Len(result.slug) : result.slug[i] \in SlugAlphabet) /\ result.again = result.slug

\* C37, amended: the slug contains only characters of [a-z0-9-] and the slug
\* of the slug is the slug; it has the length of the lower-cased name, which
\* is the length of the name plus one for every U+0130 in it; when the name
\* has none, the slug is the name lower-cased with every character outside
\* [a-z0-9] replaced by '-', position by position.
C37_Slug ==
    pc = "done" /\ inp.call = "slug" =>
        /\ \A i \in 1..Len(result.slug) : result.slug[i] \in SlugAlphabet
        /\ result.again = result.slug
        /\ Len(result.slug) = Len(inp.name) + Cardinality(Lengthening)
        /\ Lengthening = {} => result.slug = [i \in 1..Len(inp.name) |-> SlugCharOf(inp.name[i])]

\* The slug of a name of mixed case with a blank and a digit was derived.
C37_Witness == pc = "done" /\ inp.call = "slug" /\ inp.name = <<"M", " ", "7">> /\ result.slug = <<"m", "-", "7">>

\* The place in the list of the last connector with the slug k.
LastWithSlug(k) == CHOOSE i \in 1..Len(inp.mcpServers) : Slug(inp.mcpServers[i].name) = k /\ \A j \in (i + 1)..Len(inp.mcpServers) : Slug(inp.mcpServers[j].name) # k

\* The entry a driver's translation makes of one connector.
TranslationOf(d, server) == IF d = "gemini" THEN GeminiEntry(server) ELSE OpenCodeEntry(server)

\* The log lines of the translation: from the opening message of the
\* configuration step to the write of the artifact.
LogsBeforeWrite == SelectSeq(SubSeq(trace, CHOOSE i \in 1..Len(trace) : trace[i].t = "log" /\ trace[i].text = <<"Configuring MCP servers">>, CHOOSE i \in 1..Len(trace) : trace[i].t = "cmd" /\ trace[i].tag = "config"), LAMBDA e : e.t = "log")

\* Two connectors of the list have the same slug.
SlugsCollide == \E i, j \in 1..Len(inp.mcpServers) : i < j /\ Slug(inp.mcpServers[i].name) = Slug(inp.mcpServers[j].name)

\* C38: the configuration the Gemini or the OpenCode driver has just written has
\* exactly one entry per distinct slug of the connector list, each the
\* translation of the last connector with that slug, and a collision of slugs
\* produces no error and no warning.
C38_LastWriteWins ==
    pc \in {"g_cfgverify", "o_cfgverify"} /\ sbx.config.fmt \in {"gemini-settings", "opencode-config"} /\ inp.mcpServers # <<>> =>
        LET es == ConnectorEntries(sbx.config)
        IN /\ \A i, j \in 1..Len(es) : es[i].key = es[j].key => i = j
           /\ {es[i].key : i \in 1..Len(es)} = {Slug(inp.mcpServers[k].name) : k \in 1..Len(inp.mcpServers)}
           /\ \A i \in 1..Len(es) : es[i].entry = TranslationOf(inp.driver, inp.mcpServers[LastWithSlug(es[i].key)])
           /\ SlugsCollide => \A i \in 1..Len(LogsBeforeWrite) : LogsBeforeWrite[i].kind = "info" /\ LogsBeforeWrite[i].text \in {<<"Configuring MCP servers">>, <<"Added local MCP server">>, <<"Added remote MCP server">>, <<"Creating Gemini MCP settings file...">>, <<"Creating OpenCode MCP configuration file...">>}

\* A local connector and a remote one with the same slug, the remote one
\* last: the written configuration has the remote entry alone.
C38_Witness == inp.driver = "opencode" /\ inp.mcpServers = <<LocalConnector, RemoteConnector>> /\ pc = "o_cfgverify" /\ sbx.config.fmt = "opencode-config" /\ Len(ConnectorEntries(sbx.config)) = 1 /\ ConnectorEntries(sbx.config)[1].entry.kind = "remote"

\* The executables whose `--version` returned success in this invocation.
VerifiedExecutables == {SubSeq(Verifies[i].text, 1, Len(Verifies[i].text) - 2) : i \in {k \in 1..Len(Verifies) : Verifies[k].data.fmt = "ran" /\ Verifies[k].data.result.success /\ Verifies[k].text[Len(Verifies[k].text)] = "--version"}}

\* C39: the OpenCode driver issues the agent execution command with an
\* executable whose `--version` succeeded in this invocation: 'opencode', or
\* the '<npm global bin>/opencode' path.
C39_VerifiedExecutable == inp.driver = "opencode" /\ ExecIssued => \E x \in VerifiedExecutables : Contains(Execs[1].text, <<" ">> \o x \o <<" run">>)

\* The returned URL carries the token.
TokenEmbedded == Truthy(inp.githubToken) /\ \E i \in 1..Len(result) : <<result[i]>> = inp.githubToken

\* The returned URL designates the repository of the input: the input itself
\* when it does not parse, else a URL of the same scheme, userinfo, host,
\* port and path.
SameRepository == IF parseURL(inp.repoUrl).ok THEN parseURL(result) = parseURL(inp.repoUrl) ELSE result = inp.repoUrl

\* C40: the returned URL carries the token only when the host of the
\* repository URL is github.com; with another host, an unparsable URL or no
\* token, it carries no token and designates the same repository as the input.
C40_RepoUrl ==
    pc = "done" /\ inp.call = "repoUrl" =>
        /\ TokenEmbedded => parseURL(inp.repoUrl).ok /\ parseURL(inp.repoUrl).hostname = "github.com"
        /\ ~Truthy(inp.githubToken) \/ ~parseURL(inp.repoUrl).ok \/ parseURL(inp.repoUrl).hostname # "github.com" => ~TokenEmbedded /\ SameRepository

\* A token was given for a repository of a host that only resembles
\* github.com, and the URL came back without it.
C40_Witness == pc = "done" /\ inp.call = "repoUrl" /\ inp.githubToken = <<"ghp_1">> /\ inp.repoUrl = <<"https", "://", "github.com.evil.io", "/o/r.git">> /\ result = inp.repoUrl
====
